---- MODULE Spec2Model ----
(***************************************************************************)
(* NEON DUEL simulation core: player controller, combat engine, stage      *)
(* manager and the per-tick match flow.                                    *)
(*                                                                         *)
(* Lengths and velocities are f32 world units in the source; here they are *)
(* fixed-point integers in 1/1000 world unit (Q == 1000), products are     *)
(* truncated toward zero.  Ratios (friction, input axes) are per mille.    *)
(***************************************************************************)
EXTENDS Integers, Sequences, FiniteSets, TLC

VARIABLES
    PLAYERS,        \* [0..3 -> Player]            player.rs PLAYERS
    BULLETS,        \* [0..31 -> Bullet]           combat.rs BULLETS
    PLATFORMS,      \* [0..15 -> Platform]         stage.rs PLATFORMS
    GAME_STATE,     \* GameState singleton         game_state.rs GAME_STATE
    CONFIG,         \* GameConfig                  game_state.rs CONFIG
    TICK,           \* tick counter                game_state.rs TICK
    ROUND_NUMBER,   \* round counter               game_state.rs ROUND_NUMBER
    HIT_FREEZE,     \* hit freeze countdown        game_state.rs HIT_FREEZE
    trace,          \* what the last tick did (calls made, per-call before/after)
    bhist,          \* per bullet slot: updates since spawn, deflected flag
    match,          \* per match: number of times the phase entered FinalKo,
                    \* number of times the victory effects were fired
    ticksLeft,      \* remaining ticks of the explored run
    padHeld,        \* buttons each pad held down in the last sample
    inputTicksLeft  \* remaining ticks in which humans give non-idle input

vars == <<PLAYERS, BULLETS, PLATFORMS, GAME_STATE, CONFIG, TICK, ROUND_NUMBER,
          HIT_FREEZE, trace, bhist, match, ticksLeft, padHeld, inputTicksLeft>>

-----------------------------------------------------------------------------
(* Bounds of the exploration *)

MaxDemoTicks == 100
MaxDuelTicks == 10
MaxInputTicks == 2
MaxPoolShots == 3
MaxStageSteps == 5
MaxStageIndex == 4
MaxSlotIndex == 5

-----------------------------------------------------------------------------
(* Program constants (1/1000 world units, ticks, counts) *)

Q == 1000

MAX_PLAYERS == 4
MAX_BULLETS == 32
MAX_PLATFORMS == 16
NUM_STAGES == 3

GRAVITY == 25
JUMP_FORCE == 500
MOVE_SPEED == 150
FRICTION == 850
AIR_FRICTION == 950
ANALOG_DEADZONE == 200

PLAYER_WIDTH == 800
PLAYER_HEIGHT == 1200

MAX_AMMO == 3
MELEE_DURATION == 12
MELEE_RANGE == 1800
RESPAWN_DELAY == 90
SPAWN_INVULN_FRAMES == 60
DEATH_Y == -8000
SHOOT_FLASH_DURATION == 6
MELEE_WINDUP_DURATION == 3
JUMP_BUFFER_FRAMES == 6
COYOTE_FRAMES == 6
DROP_THROUGH_FRAMES == 10
FAST_FALL_THRESHOLD == -750
FAST_FALL_MULT == 1750
SQUASH_DECAY == 850

BULLET_SPEED == 400
BULLET_LIFETIME == 120
FRAC_1_SQRT_2 == 707

FINAL_KO_TICKS == 75
ROUND_END_TICKS == 30
COUNTDOWN_TICKS == 180

\* 1.0e12 in the source: larger than every squared distance of the arena
FAR_DIST_SQ == 2000000000

PlayerIds == 0 .. (MAX_PLAYERS - 1)
BulletIds == 0 .. (MAX_BULLETS - 1)
PlatformIds == 0 .. (MAX_PLATFORMS - 1)

-----------------------------------------------------------------------------
(* Arithmetic helpers *)

Max(a, b) == IF a >= b THEN a ELSE b
Min(a, b) == IF a <= b THEN a ELSE b

\* u32::saturating_sub(1)
SatDec(n) == IF n > 0 THEN n - 1 ELSE 0

\* f32 product of two fixed-point values, truncated toward zero
Mul(a, b) ==
    LET p == a * b
    IN  IF p >= 0 THEN p \div Q ELSE -((-p) \div Q)

clamp(v, min, max) ==
    IF v < min THEN min ELSE IF v > max THEN max ELSE v

abs(v) == IF v < 0 THEN -v ELSE v

aabb_overlap(x1, y1, w1, h1, x2, y2, w2, h2) ==
    /\ x1 < x2 + w2
    /\ x1 + w1 > x2
    /\ y1 < y2 + h2
    /\ y1 + h1 > y2

point_in_aabb(px, py, x, y, w, h) ==
    /\ px >= x
    /\ px <= x + w
    /\ py >= y
    /\ py <= y + h

\* squared centre distance, as computed by the nearest-player loops
DistSq(dx, dy) == dx * dx + dy * dy

-----------------------------------------------------------------------------
(* Data structures *)

NewPlayer ==
    [x |-> 0, y |-> 0, vx |-> 0, vy |-> 0,
     on_ground |-> FALSE, facing_right |-> TRUE,
     active |-> FALSE, ready |-> FALSE, is_bot |-> FALSE,
     ammo |-> MAX_AMMO, melee_timer |-> 0, melee_windup |-> 0,
     dead |-> FALSE, respawn_timer |-> 0, invuln_timer |-> 0,
     jump_buffer |-> 0, coyote_timer |-> 0, drop_timer |-> 0,
     ai_seed |-> <<0, 0>>, ai_shoot_cooldown |-> 0, ai_melee_cooldown |-> 0,
     ai_jump_hold |-> 0,
     spawn_flash |-> 0, shoot_flash |-> 0, squash_stretch |-> 0,
     kills |-> 0]

NewBullet ==
    [x |-> 0, y |-> 0, vx |-> 0, vy |-> 0, owner |-> 0, lifetime |-> 0,
     active |-> FALSE]

NewPlatform ==
    [x |-> 0, y |-> 0, width |-> 0, height |-> 0, active |-> FALSE,
     moving |-> FALSE, move_speed |-> 0, move_min |-> 0, move_max |-> 0]

NewGameState ==
    [phase |-> "Title", countdown |-> COUNTDOWN_TICKS, round_end_timer |-> 0,
     current_stage |-> 0, round_time_left |-> 0, overtime |-> FALSE,
     arena_left |-> -10000, arena_right |-> 10000, winner_idx |-> 0,
     final_ko_timer |-> 0, demo_mode |-> FALSE, paused_from |-> "Playing"]

NewGameConfig ==
    [stage_select |-> NUM_STAGES + 1, kills_to_win |-> 5,
     round_time_seconds |-> 45, fill_bots |-> TRUE, bot_difficulty |-> 1]

\* Record of one tick's calls: kill_player calls, bullet hits, deflections,
\* arena clamps, bullets that went through update_bullets.
NoTrace ==
    [kills |-> <<>>, hits |-> <<>>, deflects |-> <<>>, clamps |-> <<>>,
     spawns |-> <<>>, gameplay |-> FALSE, reset |-> FALSE,
     rematch |-> FALSE, victory |-> FALSE, menu |-> "none",
     lives |-> <<>>, shots |-> <<>>, respawns |-> <<>>]

\* no swing seen: ticks counted at combat resolution since the last accepted
\* melee press, with the hitbox off (wait) and on (live)
NoSwing == [pressed |-> FALSE, wait |-> 0, live |-> 0]

\* no ground jump seen: the launches so far (2 for more) and, since the last
\* one, whether the player began an update on the ground and whether jump
\* was pressed
NoJump == [launches |-> 0, grounded |-> FALSE, pressed |-> FALSE]

NewMatch ==
    [final_ko_entries |-> 0, victories |-> 0,
     melee |-> [i \in PlayerIds |-> NoSwing],
     jump |-> [i \in PlayerIds |-> NoJump]]

NewBulletHist == [updates |-> 0, deflected |-> FALSE]

\* where the players are and who is in play
Whereabouts(P) ==
    [i \in PlayerIds |-> [x |-> P[i].x, y |-> P[i].y,
                          active |-> P[i].active, dead |-> P[i].dead]]

KillsOf(P) == [i \in PlayerIds |-> P[i].kills]

-----------------------------------------------------------------------------
(* game_state.rs: hit freeze *)

trigger_hit_freeze_latest(hf, frames) == frames

\* Don't override a longer freeze
trigger_hit_freeze(hf, frames) == IF frames > hf THEN frames ELSE hf

is_frozen(hf) == hf > 0

update_hit_freeze(hf) == SatDec(hf)

round_time_limit_ticks == CONFIG.round_time_seconds * 60

\* value of TICK while a tick runs: update increments it first
Now == TICK + 1

\* Statement order: the world v of the statements so far is computed before
\* the statements e that follow it (the value is e's)
Strict(v, e) == IF v.HF >= 0 THEN e ELSE v

-----------------------------------------------------------------------------
(* player.rs: kill resolution.  A world w is the record                   *)
(* [P: players, B: bullets, G: game state, HF: hit freeze, bh: bullet      *)
(*  history, tr: trace of the running tick].                               *)

\* victim.dead = true; respawn_timer = RESPAWN_DELAY; invuln_timer = 0
MarkDead(P, victim_idx) ==
    [P EXCEPT ![victim_idx].dead = TRUE,
              ![victim_idx].respawn_timer = RESPAWN_DELAY,
              ![victim_idx].invuln_timer = 0]

AwardKill_any(P, victim_idx, killer_owner) ==
    [P EXCEPT ![killer_owner].kills = @ + 1]

\* Award kill (if not self-kill)
AwardKill(P, victim_idx, killer_owner) ==
    IF killer_owner # victim_idx
    THEN [P EXCEPT ![killer_owner].kills = @ + 1]
    ELSE P

\* the match win test on the killer's new score
MatchWon(kills) == kills >= Max(CONFIG.kills_to_win, 1)

EnterFinalKo_end(G, killer_owner) ==
    [G EXCEPT !.winner_idx = Min(killer_owner, 3),
              !.final_ko_timer = FINAL_KO_TICKS,
              !.round_end_timer = 0,
              !.phase = "MatchEnd"]

\* the game-state writes of a match win
EnterFinalKo(G, killer_owner) ==
    [G EXCEPT !.winner_idx = Min(killer_owner, 3),
              !.final_ko_timer = FINAL_KO_TICKS,
              !.round_end_timer = 0,
              !.phase = "FinalKo"]

KillLiving_first_wins(w, victim_idx, killer_owner) ==
    LET P2 == AwardKill(MarkDead(w.P, victim_idx), victim_idx, killer_owner)
        win == /\ killer_owner # victim_idx
               /\ MatchWon(P2[killer_owner].kills)
               /\ w.G.phase # "FinalKo"
        G1 == IF win THEN EnterFinalKo(w.G, killer_owner) ELSE w.G
        HF1 == IF win THEN trigger_hit_freeze(w.HF, 12) ELSE w.HF
        G2 == IF G1.phase = "Playing"
              THEN [G1 EXCEPT !.round_end_timer = ROUND_END_TICKS]
              ELSE G1
    IN  [w EXCEPT !.P = P2, !.G = G2, !.HF = HF1]

\* kill_player past its guard: the victim is alive
KillLiving_capped(w, victim_idx, killer_owner) ==
    LET P1 == MarkDead(w.P, victim_idx)
        P2 == IF w.G.phase = "FinalKo" THEN P1
              ELSE AwardKill(P1, victim_idx, killer_owner)
        win == /\ killer_owner # victim_idx /\ w.G.phase # "FinalKo"
               /\ MatchWon(P2[killer_owner].kills)
        G1 == IF win THEN EnterFinalKo(w.G, killer_owner) ELSE w.G
        HF1 == IF win THEN trigger_hit_freeze(w.HF, 12) ELSE w.HF
        G2 == IF G1.phase = "Playing"
              THEN [G1 EXCEPT !.round_end_timer = ROUND_END_TICKS]
              ELSE G1
    IN  [w EXCEPT !.P = P2, !.G = G2, !.HF = HF1]

KillLiving_by_the_living(w, victim_idx, killer_owner) ==
    LET P1 == MarkDead(w.P, victim_idx)
        scores == ~w.P[killer_owner].dead
        P2 == IF scores THEN AwardKill(P1, victim_idx, killer_owner) ELSE P1
        win == /\ killer_owner # victim_idx /\ scores
               /\ MatchWon(P2[killer_owner].kills)
        G1 == IF win THEN EnterFinalKo(w.G, killer_owner) ELSE w.G
        HF1 == IF win THEN trigger_hit_freeze(w.HF, 12) ELSE w.HF
        G2 == IF G1.phase = "Playing"
              THEN [G1 EXCEPT !.round_end_timer = ROUND_END_TICKS]
              ELSE G1
    IN  [w EXCEPT !.P = P2, !.G = G2, !.HF = HF1]

KillLiving(w, victim_idx, killer_owner) ==
    LET P2 == AwardKill(MarkDead(w.P, victim_idx), victim_idx, killer_owner)
        win == killer_owner # victim_idx /\ MatchWon(P2[killer_owner].kills)
        G1 == IF win THEN EnterFinalKo(w.G, killer_owner) ELSE w.G
        HF1 == IF win THEN trigger_hit_freeze(w.HF, 12) ELSE w.HF
        G2 == IF G1.phase = "Playing"
              THEN [G1 EXCEPT !.round_end_timer = ROUND_END_TICKS]
              ELSE G1
    IN  [w EXCEPT !.P = P2, !.G = G2, !.HF = HF1]

kill_player_unguarded(w, victim_idx, killer_owner) ==
    KillLiving(w, victim_idx, killer_owner)

kill_player(w, victim_idx, killer_owner) ==
    IF w.P[victim_idx].dead
    THEN w
    ELSE KillLiving(w, victim_idx, killer_owner)

\* A call of kill_player made by the tick, with what it found and left.
KillCall(w, victim_idx, killer_owner, source) ==
    LET w2 == kill_player(w, victim_idx, killer_owner)
    IN  [w2 EXCEPT !.tr.kills = Append(w.tr.kills,
            [victim |-> victim_idx, killer |-> killer_owner,
             source |-> source,
             was_dead |-> w.P[victim_idx].dead,
             killer_dead |-> w.P[killer_owner].dead,
             invuln_before |-> w.P[victim_idx].invuln_timer,
             kills_before |-> KillsOf(w.P),
             kills_after |-> KillsOf(w2.P),
             phase_before |-> w.G.phase,
             phase_after |-> w2.G.phase,
             winner_before |-> w.G.winner_idx,
             winner_after |-> w2.G.winner_idx,
             ret_before |-> w.G.round_end_timer,
             ret_after |-> w2.G.round_end_timer,
             dead_after |-> w2.P[victim_idx].dead,
             rt_before |-> w.P[victim_idx].respawn_timer,
             rt_after |-> w2.P[victim_idx].respawn_timer,
             same |-> (w2.P = w.P /\ w2.G = w.G /\ w2.HF = w.HF
                        /\ w2.B = w.B)])]

-----------------------------------------------------------------------------
(* combat.rs: bullets *)

\* Normalize aim to 8 directions; result is <<dx, dy>> per mille
normalize_aim(x, y, facing_right) ==
    LET threshold == 300
        ax == IF x > threshold THEN Q ELSE IF x < -threshold THEN -Q ELSE 0
        ay == IF y > threshold THEN Q ELSE IF y < -threshold THEN -Q ELSE 0
    IN  IF ax = 0 /\ ay = 0
        THEN <<IF facing_right THEN Q ELSE -Q, 0>>
        ELSE IF ax # 0 /\ ay # 0
        THEN <<Mul(ax, FRAC_1_SQRT_2), Mul(ay, FRAC_1_SQRT_2)>>
        ELSE <<ax, ay>>

FirstFreeSlot_last(B) ==
    IF \E i \in BulletIds : ~B[i].active
    THEN CHOOSE i \in BulletIds :
            /\ ~B[i].active
            /\ \A j \in BulletIds : j > i => B[j].active
    ELSE MAX_BULLETS

\* index of the first inactive slot of the pool, MAX_BULLETS when full
FirstFreeSlot(B) ==
    IF \E i \in BulletIds : ~B[i].active
    THEN CHOOSE i \in BulletIds :
            /\ ~B[i].active
            /\ \A j \in BulletIds : j < i => B[j].active
    ELSE MAX_BULLETS

spawn_bullet(w, player_idx, aim_x, aim_y) ==
    LET p == w.P[player_idx]
        slot == FirstFreeSlot(w.B)
        d == normalize_aim(aim_x, aim_y, p.facing_right)
        spawn_x == p.x + PLAYER_WIDTH \div 2
        spawn_y == p.y + PLAYER_HEIGHT \div 2
    IN  IF slot = MAX_BULLETS
        THEN w
        ELSE [w EXCEPT
                !.B[slot] = [x |-> spawn_x, y |-> spawn_y,
                             vx |-> Mul(d[1], BULLET_SPEED),
                             vy |-> Mul(d[2], BULLET_SPEED),
                             owner |-> player_idx,
                             lifetime |-> BULLET_LIFETIME,
                             active |-> TRUE],
                !.bh[slot] = NewBulletHist,
                !.tr.spawns = Append(@, [slot |-> slot, owner |-> player_idx])]

\* centre of the melee deflection circle of a player
MeleeCentreX(player) ==
    player.x + PLAYER_WIDTH \div 2
        + (IF player.facing_right THEN MELEE_RANGE \div 2
                                  ELSE -(MELEE_RANGE \div 2))

MeleeCentreY(player) == player.y + PLAYER_HEIGHT \div 2

\* libm::sqrtf(dx*dx + dy*dy) < MELEE_RANGE
InDeflectRange_near(bullet, player) ==
    LET dx == bullet.x - MeleeCentreX(player)
        dy == bullet.y - MeleeCentreY(player)
    IN  DistSq(dx, dy) < (MELEE_RANGE \div 2) * (MELEE_RANGE \div 2)

InDeflectRange(bullet, player) ==
    LET dx == bullet.x - MeleeCentreX(player)
        dy == bullet.y - MeleeCentreY(player)
    IN  DistSq(dx, dy) < MELEE_RANGE * MELEE_RANGE

Deflect_keeps_owner(w, bi, i) ==
    LET b == w.B[bi]
    IN  [w EXCEPT !.B[bi].vx = -b.vx,
                  !.B[bi].vy = -b.vy,
                  !.B[bi].lifetime = BULLET_LIFETIME,
                  !.HF = trigger_hit_freeze(w.HF, 3)]

\* the deflection branch of the player loop (combat.rs 213-228)
Deflect(w, bi, i) ==
    LET b == w.B[bi]
    IN  [w EXCEPT !.B[bi].vx = -b.vx,
                  !.B[bi].vy = -b.vy,
                  !.B[bi].owner = i,
                  !.B[bi].lifetime = BULLET_LIFETIME,
                  !.HF = trigger_hit_freeze(w.HF, 3)]

BulletHit_pierce(w, bi, i) ==
    LET w1 == [w EXCEPT !.HF = trigger_hit_freeze(w.HF, 5)]
    IN  KillCall(w1, i, w1.B[bi].owner, "bullet")

\* the hit branch of the player loop (combat.rs 237-260)
BulletHit(w, bi, i) ==
    LET w1 == [w EXCEPT !.HF = trigger_hit_freeze(w.HF, 5)]
        w2 == KillCall(w1, i, w1.B[bi].owner, "bullet")
    IN  [w2 EXCEPT !.B[bi].active = FALSE]
RECURSIVE BulletPlayerLoop_selfhit(_, _, _)
BulletPlayerLoop_selfhit(w, bi, i) ==
    IF i >= MAX_PLAYERS
    THEN w
    ELSE
      LET player == w.P[i]
          bullet == w.B[bi]
      IN  IF ~player.active \/ player.dead
          THEN BulletPlayerLoop_selfhit(w, bi, i + 1)
          ELSE IF player.melee_timer > 0 /\ InDeflectRange(bullet, player)
          THEN LET w1 == Deflect(w, bi, i)
                   w2 == [w1 EXCEPT
                            !.bh[bi].deflected = TRUE,
                            !.tr.deflects = Append(@,
                               [bullet |-> bi, by |-> i, shot |-> bullet,
                                owner_before |-> bullet.owner,
                                vx_before |-> bullet.vx,
                                vy_before |-> bullet.vy,
                                after |-> w1.B[bi],
                                by_dead_after |-> w1.P[i].dead])]
               IN  BulletPlayerLoop_selfhit(w2, bi, i + 1)
          ELSE IF point_in_aabb(bullet.x, bullet.y, player.x, player.y,
                                PLAYER_WIDTH, PLAYER_HEIGHT)
          THEN LET w1 == BulletHit(w, bi, i)
               IN  [w1 EXCEPT !.tr.hits = Append(@,
                        [bullet |-> bi, victim |-> i, shot |-> bullet,
                         killer |-> bullet.owner,
                         active_after |-> w1.B[bi].active])]
          ELSE BulletPlayerLoop_selfhit(w, bi, i + 1)

\* Player collision loop of one bullet, from player index i on
RECURSIVE BulletPlayerLoop(_, _, _)
BulletPlayerLoop(w, bi, i) ==
    IF i >= MAX_PLAYERS
    THEN w
    ELSE
      LET player == w.P[i]
          bullet == w.B[bi]
      IN  IF ~player.active \/ player.dead
          THEN BulletPlayerLoop(w, bi, i + 1)
          ELSE IF i = bullet.owner
          THEN BulletPlayerLoop(w, bi, i + 1)
          ELSE IF player.melee_timer > 0 /\ InDeflectRange(bullet, player)
          THEN LET w1 == Deflect(w, bi, i)
                   w2 == [w1 EXCEPT
                            !.bh[bi].deflected = TRUE,
                            !.tr.deflects = Append(@,
                               [bullet |-> bi, by |-> i, shot |-> bullet,
                                owner_before |-> bullet.owner,
                                vx_before |-> bullet.vx,
                                vy_before |-> bullet.vy,
                                after |-> w1.B[bi],
                                by_dead_after |-> w1.P[i].dead])]
               IN  BulletPlayerLoop(w2, bi, i + 1)
          ELSE IF point_in_aabb(bullet.x, bullet.y, player.x, player.y,
                                PLAYER_WIDTH, PLAYER_HEIGHT)
          THEN LET w1 == BulletHit(w, bi, i)
               IN  [w1 EXCEPT !.tr.hits = Append(@,
                        [bullet |-> bi, victim |-> i, shot |-> bullet,
                         killer |-> bullet.owner,
                         active_after |-> w1.B[bi].active])]
          ELSE BulletPlayerLoop(w, bi, i + 1)

\* TRUE iff the bullet point lies in some active platform
HitsPlatform(plats, bx, by) ==
    \E k \in PlatformIds :
        /\ plats[k].active
        /\ point_in_aabb(bx, by, plats[k].x, plats[k].y,
                         plats[k].width, plats[k].height)

MoveBullet_ageless(b0) ==
    [b0 EXCEPT !.x = b0.x + b0.vx, !.y = b0.y + b0.vy]

\* move and age of an active bullet (combat.rs 144-147)
MoveBullet(b0) ==
    [b0 EXCEPT !.x = b0.x + b0.vx, !.y = b0.y + b0.vy,
               !.lifetime = b0.lifetime - 1]

UpdateBullet_players_first(w, plats, bi) ==
    LET b0 == w.B[bi]
    IN  IF ~b0.active
        THEN w
        ELSE
          LET b1 == MoveBullet(b0)
              w1 == [w EXCEPT !.B[bi] = b1,
                              !.bh[bi].updates = @ + 1]
              w2 == BulletPlayerLoop(w1, bi, 0)
          IN  IF b1.lifetime = 0
              THEN [w1 EXCEPT !.B[bi].active = FALSE]
              ELSE IF b1.x < -12000 \/ b1.x > 12000
                      \/ b1.y < -10000 \/ b1.y > 10000
              THEN [w1 EXCEPT !.B[bi].active = FALSE]
              ELSE IF HitsPlatform(plats, w2.B[bi].x, w2.B[bi].y)
              THEN [w2 EXCEPT !.B[bi].active = FALSE]
              ELSE w2

\* the body of the bullet loop for slot bi (combat.rs 138-261)
UpdateBullet(w, plats, bi) ==
    LET b0 == w.B[bi]
    IN  IF ~b0.active
        THEN w
        ELSE
          LET b1 == MoveBullet(b0)
              w1 == [w EXCEPT !.B[bi] = b1,
                              !.bh[bi].updates = @ + 1]
          IN  IF b1.lifetime = 0
              THEN [w1 EXCEPT !.B[bi].active = FALSE]
              ELSE IF b1.x < -12000 \/ b1.x > 12000
                      \/ b1.y < -10000 \/ b1.y > 10000
              THEN [w1 EXCEPT !.B[bi].active = FALSE]
              ELSE IF HitsPlatform(plats, b1.x, b1.y)
              THEN [w1 EXCEPT !.B[bi].active = FALSE]
              ELSE BulletPlayerLoop(w1, bi, 0)

\* the bullet loop over slots lo .. hi, in ascending slot order
RECURSIVE UpdateBulletsRange(_, _, _, _)
UpdateBulletsRange(w, plats, lo, hi) ==
    IF lo = hi
    THEN UpdateBullet(w, plats, lo)
    ELSE LET mid == (lo + hi) \div 2
             w1 == UpdateBulletsRange(w, plats, lo, mid)
         IN  Strict(w1, UpdateBulletsRange(w1, plats, mid + 1, hi))

update_bullets(w, plats) ==
    Strict(w, UpdateBulletsRange(w, plats, 0, MAX_BULLETS - 1))

-----------------------------------------------------------------------------
(* combat.rs: melee *)

MeleeBoxX(attacker) ==
    IF attacker.facing_right THEN attacker.x + PLAYER_WIDTH
                             ELSE attacker.x - MELEE_RANGE

RECURSIVE MeleeTargetLoop_first(_, _, _)
MeleeTargetLoop_first(w, attacker_idx, target_idx) ==
    IF target_idx >= MAX_PLAYERS
    THEN w
    ELSE
      LET attacker == w.P[attacker_idx]
          target == w.P[target_idx]
      IN  IF target_idx = attacker_idx
          THEN MeleeTargetLoop_first(w, attacker_idx, target_idx + 1)
          ELSE IF ~target.active \/ target.dead
          THEN MeleeTargetLoop_first(w, attacker_idx, target_idx + 1)
          ELSE IF aabb_overlap(MeleeBoxX(attacker), attacker.y,
                               MELEE_RANGE, PLAYER_HEIGHT,
                               target.x, target.y,
                               PLAYER_WIDTH, PLAYER_HEIGHT)
          THEN LET w1 == [w EXCEPT !.HF = trigger_hit_freeze(w.HF, 6)]
               IN  KillCall(w1, target_idx, attacker_idx, "melee")
          ELSE MeleeTargetLoop_first(w, attacker_idx, target_idx + 1)

\* the target loop of update_melee_hits (combat.rs 283-316)
RECURSIVE MeleeTargetLoop(_, _, _)
MeleeTargetLoop(w, attacker_idx, target_idx) ==
    IF target_idx >= MAX_PLAYERS
    THEN w
    ELSE
      LET attacker == w.P[attacker_idx]
          target == w.P[target_idx]
      IN  IF target_idx = attacker_idx
          THEN MeleeTargetLoop(w, attacker_idx, target_idx + 1)
          ELSE IF ~target.active \/ target.dead
          THEN MeleeTargetLoop(w, attacker_idx, target_idx + 1)
          ELSE IF aabb_overlap(MeleeBoxX(attacker), attacker.y,
                               MELEE_RANGE, PLAYER_HEIGHT,
                               target.x, target.y,
                               PLAYER_WIDTH, PLAYER_HEIGHT)
          THEN LET w1 == [w EXCEPT !.HF = trigger_hit_freeze(w.HF, 6)]
                   w2 == KillCall(w1, target_idx, attacker_idx, "melee")
               IN  MeleeTargetLoop(w2, attacker_idx, target_idx + 1)
          ELSE MeleeTargetLoop(w, attacker_idx, target_idx + 1)

RECURSIVE MeleeAttackerLoop_undead(_, _)
MeleeAttackerLoop_undead(w, attacker_idx) ==
    IF attacker_idx >= MAX_PLAYERS
    THEN w
    ELSE
      LET attacker == w.P[attacker_idx]
      IN  IF ~attacker.active \/ attacker.melee_timer = 0
          THEN MeleeAttackerLoop_undead(w, attacker_idx + 1)
          ELSE LET w1 == MeleeTargetLoop(w, attacker_idx, 0)
               IN  Strict(w1, MeleeAttackerLoop_undead(w1, attacker_idx + 1))

\* the attacker loop of update_melee_hits (combat.rs 268-271)
RECURSIVE MeleeAttackerLoop(_, _)
MeleeAttackerLoop(w, attacker_idx) ==
    IF attacker_idx >= MAX_PLAYERS
    THEN w
    ELSE
      LET attacker == w.P[attacker_idx]
      IN  IF ~attacker.active \/ attacker.dead \/ attacker.melee_timer = 0
          THEN MeleeAttackerLoop(w, attacker_idx + 1)
          ELSE LET w1 == MeleeTargetLoop(w, attacker_idx, 0)
               IN  Strict(w1, MeleeAttackerLoop(w1, attacker_idx + 1))

update_melee_hits(w) == Strict(w, MeleeAttackerLoop(w, 0))

-----------------------------------------------------------------------------
(* stage.rs: platform layouts, moving platforms, spawn points *)

Plat(x, y, width, height) ==
    [x |-> x, y |-> y, width |-> width, height |-> height, active |-> TRUE,
     moving |-> FALSE, move_speed |-> 0, move_min |-> 0, move_max |-> 0]

ClearPlatforms_none(plats) == plats

\* "Clear platforms" only resets the active flag of each slot
ClearPlatforms(plats) == [k \in PlatformIds |-> [plats[k] EXCEPT !.active = FALSE]]

setup_stage_grid_arena(plats) ==
    [ClearPlatforms(plats) EXCEPT
        ![0] = Plat(-10000, -2000, 20000, 500),
        ![1] = Plat(-7000, 1000, 4000, 400),
        ![2] = Plat(3000, 1000, 4000, 400),
        ![3] = Plat(-3000, 4000, 6000, 400)]

setup_stage_scatter_field(plats) ==
    [ClearPlatforms(plats) EXCEPT
        ![0] = Plat(-9000, 0, 4000, 400),
        ![1] = Plat(-3000, -1000, 3000, 400),
        ![2] = Plat(2000, 500, 3500, 400),
        ![3] = Plat(6000, -500, 3000, 400),
        ![4] = Plat(-6000, 3000, 3000, 400),
        ![5] = Plat(0, 4000, 4000, 400),
        ![6] = Plat(5000, 2500, 3000, 400)]

setup_stage_ring_void(plats) ==
    [ClearPlatforms(plats) EXCEPT
        ![0] = Plat(-8000, 0, 3000, 400),
        ![1] = Plat(5000, 0, 3000, 400),
        ![2] = [Plat(-1500, 1000, 3000, 400) EXCEPT
                   !.moving = TRUE, !.move_speed = 20,
                   !.move_min = -4000, !.move_max = 4000],
        ![3] = Plat(-7000, 3500, 2500, 400),
        ![4] = Plat(4500, 3500, 2500, 400),
        ![5] = Plat(-2000, 5000, 4000, 400)]

setup_current_stage(plats, current_stage) ==
    CASE current_stage = 0 -> setup_stage_grid_arena(plats)
      [] current_stage = 1 -> setup_stage_scatter_field(plats)
      [] current_stage = 2 -> setup_stage_ring_void(plats)
      [] OTHER -> setup_stage_grid_arena(plats)

update_platforms_right_edge(plats) ==
    [k \in PlatformIds |->
        LET platform == plats[k]
        IN  IF ~platform.active \/ ~platform.moving
            THEN platform
            ELSE
              LET x1 == platform.x + platform.move_speed
              IN  IF x1 <= platform.move_min
                     \/ x1 + platform.width >= platform.move_max
                  THEN [platform EXCEPT !.x = x1,
                                        !.move_speed = -platform.move_speed]
                  ELSE [platform EXCEPT !.x = x1]]

\* stage.rs 309-327
update_platforms(plats) ==
    [k \in PlatformIds |->
        LET platform == plats[k]
        IN  IF ~platform.active \/ ~platform.moving
            THEN platform
            ELSE
              LET x1 == platform.x + platform.move_speed
              IN  IF x1 <= platform.move_min
                     \/ x1 + platform.width >= platform.move_max + platform.width
                  THEN [platform EXCEPT !.x = x1,
                                        !.move_speed = -platform.move_speed]
                  ELSE [platform EXCEPT !.x = x1]]

\* SPAWN_POINTS[stage][2*slot], SPAWN_POINTS[stage][2*slot + 1]
SPAWN_POINTS ==
    <<  << -5000, 1500,  5000, 1500, -2000, 4500, 2000, 4500 >>,
        << -7000,  500,  3500, 1000, -4500, 3500, 1500, 4500 >>,
        << -6500,  500,  6000,  500, -5500, 4000, 5500, 4000 >> >>

\* the spawn table is 0-based in the source
SpawnPoint(stage, k) == SPAWN_POINTS[stage + 1][k + 1]

get_spawn_position_stage0(current_stage, player_idx) ==
    LET idx == Min(player_idx, 3) * 2
    IN  <<SpawnPoint(0, idx), SpawnPoint(0, idx + 1)>>

get_spawn_position_default0(current_stage, player_idx) ==
    LET stage == IF current_stage < NUM_STAGES THEN current_stage ELSE 0
        idx == Min(player_idx, 3) * 2
    IN  <<SpawnPoint(stage, idx), SpawnPoint(stage, idx + 1)>>

get_spawn_position(current_stage, player_idx) ==
    LET stage == Min(current_stage, 2)
        idx == Min(player_idx, 3) * 2
    IN  <<SpawnPoint(stage, idx), SpawnPoint(stage, idx + 1)>>

-----------------------------------------------------------------------------
(* player.rs: input *)

BUTTON_UP == 0
BUTTON_DOWN == 1
BUTTON_LEFT == 2
BUTTON_RIGHT == 3
BUTTON_A == 4
BUTTON_B == 5
BUTTON_X == 6

\* One input sample of a pad: stick axes per mille, buttons held, buttons
\* pressed on this tick (a pressed button is also held).
Pad(sx, sy, held, pressed) ==
    [stick_x |-> sx, stick_y |-> sy, held |-> held \cup pressed,
     pressed |-> pressed]

IdlePad == Pad(0, 0, {}, {})

apply_deadzone(v) ==
    LET av == abs(v)
    IN  IF av < ANALOG_DEADZONE
        THEN 0
        ELSE LET scaled == ((av - ANALOG_DEADZONE) * Q) \div (Q - ANALOG_DEADZONE)
             IN  Min(scaled, Q) * (IF v < 0 THEN -1 ELSE 1)

read_human_controls(pad) ==
    LET stick_x == apply_deadzone(pad.stick_x)
        stick_y == apply_deadzone(pad.stick_y)
        dpad_h == IF BUTTON_RIGHT \in pad.held THEN Q
                  ELSE IF BUTTON_LEFT \in pad.held THEN -Q ELSE 0
        dpad_v == IF BUTTON_UP \in pad.held THEN Q
                  ELSE IF BUTTON_DOWN \in pad.held THEN -Q ELSE 0
    IN  [x |-> IF abs(stick_x) > abs(dpad_h) THEN stick_x ELSE dpad_h,
         y |-> IF abs(stick_y) > abs(dpad_v) THEN stick_y ELSE dpad_v,
         jump_pressed |-> BUTTON_A \in pad.pressed,
         jump_held |-> BUTTON_A \in pad.held,
         shoot_pressed |-> BUTTON_B \in pad.pressed,
         melee_pressed |-> BUTTON_X \in pad.pressed]

\* index of the nearest active living player other than idx as seen from the
\* centre (cx, cy); idx itself when there is none (first minimum wins)
RECURSIVE NearestFrom(_, _, _, _, _, _, _)
NearestFrom(P, idx, cx, cy, i, best_idx, best_dist_sq) ==
    IF i >= MAX_PLAYERS
    THEN best_idx
    ELSE
      LET other == P[i]
          d == DistSq(other.x + PLAYER_WIDTH \div 2 - cx,
                      other.y + PLAYER_HEIGHT \div 2 - cy)
      IN  IF i = idx \/ ~other.active \/ other.dead
          THEN NearestFrom(P, idx, cx, cy, i + 1, best_idx, best_dist_sq)
          ELSE IF d < best_dist_sq
          THEN NearestFrom(P, idx, cx, cy, i + 1, i, d)
          ELSE NearestFrom(P, idx, cx, cy, i + 1, best_idx, best_dist_sq)

overtime_killer_for_self(P, victim_idx) == victim_idx

overtime_killer_for(P, victim_idx) ==
    NearestFrom(P, victim_idx,
                P[victim_idx].x + PLAYER_WIDTH \div 2,
                P[victim_idx].y + PLAYER_HEIGHT \div 2,
                0, victim_idx, FAR_DIST_SQ)

\* Bot policy, second half (player.rs 372-505): the decisions once a target at
\* offset (dx, dy) from the bot's centre (px, py) is picked; p1 is the bot's
\* record with its cooldowns advanced.
ai_decide(B, idx, p1, px, py, dx, dy) ==
    LET difficulty == Min(CONFIG.bot_difficulty, 2)
        shoot_cd == CASE difficulty = 0 -> 40 [] difficulty = 1 -> 25 [] OTHER -> 15
        melee_cd == CASE difficulty = 0 -> 30 [] difficulty = 1 -> 20 [] OTHER -> 12
        aim_x == IF abs(dx) > 250 THEN (IF dx > 0 THEN Q ELSE -Q) ELSE 0
        input_y == IF abs(dy) > 350 THEN (IF dy > 0 THEN Q ELSE -Q) ELSE 0
        mode == ((Now \div 45) + p1.ai_seed[2]) % 4
        prefer_distance ==
            CASE difficulty = 0 -> 2800 [] difficulty = 1 -> 2300
              [] OTHER -> 1800
        want_away == abs(dx) < prefer_distance /\ (mode = 1 \/ mode = 2)
        move_dir == IF want_away THEN (IF dx > 0 THEN -Q ELSE Q)
                    ELSE IF abs(dx) > 350 THEN (IF dx > 0 THEN Q ELSE -Q)
                    ELSE 0
        input_x == IF aim_x = 0 THEN move_dir ELSE aim_x
        jump_pressed == p1.on_ground /\ dy > 1000 /\ abs(dx) < 5000
        p2 == IF jump_pressed THEN [p1 EXCEPT !.ai_jump_hold = 8] ELSE p1
        r == Mul(MELEE_RANGE, 1150)
        bullet_threat ==
            \E b \in BulletIds :
                /\ B[b].active
                /\ B[b].owner # idx
                /\ DistSq(B[b].x - px, B[b].y - py) < r * r
        parry == p2.ai_melee_cooldown = 0 /\ bullet_threat
        p3 == IF parry THEN [p2 EXCEPT !.ai_melee_cooldown = melee_cd] ELSE p2
        attack == ~parry /\ p3.ai_melee_cooldown = 0
                    /\ abs(dx) < 1700 /\ abs(dy) < 1200
        p4 == IF attack THEN [p3 EXCEPT !.ai_melee_cooldown = melee_cd] ELSE p3
        melee_pressed == parry \/ attack
        aim_ok == CASE difficulty = 0 -> abs(dx) > 1500 \/ abs(dy) > 1500
                    [] difficulty = 1 -> abs(dx) > 900 \/ abs(dy) > 900
                    [] OTHER -> TRUE
        shoot_pressed ==
            /\ p4.ai_shoot_cooldown = 0
            /\ p4.ammo > 0
            /\ p4.melee_timer = 0
            /\ p4.melee_windup = 0
            /\ abs(dx) < 10000
            /\ abs(dy) < 6000
            /\ ~melee_pressed
            /\ aim_ok
        p5 == IF shoot_pressed
              THEN [p4 EXCEPT !.ai_shoot_cooldown = shoot_cd] ELSE p4
    IN  [c |-> [x |-> input_x, y |-> input_y,
                jump_pressed |-> jump_pressed,
                jump_held |-> p5.ai_jump_hold > 0,
                shoot_pressed |-> shoot_pressed,
                melee_pressed |-> melee_pressed],
         p |-> p5]

\* Bot policy, target choice (player.rs 354-371): ti is the nearest living
\* opponent of the bot p1 centred at (px, py), idx itself when there is none.
ai_target(P, B, idx, p1, px, py, ti) ==
    IF ti = idx
    THEN [c |-> [x |-> 0, y |-> 0, jump_pressed |-> FALSE,
                 jump_held |-> p1.ai_jump_hold > 0,
                 shoot_pressed |-> FALSE, melee_pressed |-> FALSE],
          p |-> p1]
    ELSE ai_decide(B, idx, p1, px, py,
                   P[ti].x + PLAYER_WIDTH \div 2 - px,
                   P[ti].y + PLAYER_HEIGHT \div 2 - py)

\* cooldowns of the bot record p0 advanced by one tick (player.rs 344-352)
ai_cooldowns(p0) ==
    [p0 EXCEPT !.ai_shoot_cooldown = SatDec(@),
               !.ai_melee_cooldown = SatDec(@),
               !.ai_jump_hold = SatDec(@)]

\* Bot policy.  Returns the controls and the bot's record with its cooldowns
\* advanced (the source mutates PLAYERS[idx] while deciding).
ai_controls(P, B, idx) ==
    LET px == P[idx].x + PLAYER_WIDTH \div 2
        py == P[idx].y + PLAYER_HEIGHT \div 2
    IN  ai_target(P, B, idx, ai_cooldowns(P[idx]), px, py,
                  NearestFrom(P, idx, px, py, 0, idx, FAR_DIST_SQ))

\* read_controls: bot policy or pad; same result shape as ai_controls
read_controls(P, B, idx, pad) ==
    IF P[idx].is_bot
    THEN ai_controls(P, B, idx)
    ELSE [c |-> read_human_controls(pad), p |-> P[idx]]

check_wall_collision(plats, x, y_min, y_max) ==
    \E k \in PlatformIds :
        /\ plats[k].active
        /\ x >= plats[k].x
        /\ x <= plats[k].x + plats[k].width
        /\ y_max >= plats[k].y
        /\ y_min <= plats[k].y + plats[k].height

-----------------------------------------------------------------------------
(* player.rs: respawn placement *)

\* squared distance from (cx, cy) to the nearest living opponent of player_idx
MinPlayerDistSq(P, player_idx, cx, cy) ==
    LET ti == NearestFrom(P, player_idx, cx, cy, 0, player_idx, FAR_DIST_SQ)
    IN  IF ti = player_idx
        THEN FAR_DIST_SQ
        ELSE DistSq(P[ti].x + PLAYER_WIDTH \div 2 - cx,
                    P[ti].y + PLAYER_HEIGHT \div 2 - cy)

RECURSIVE MinBulletDistSq(_, _, _, _, _)
MinBulletDistSq(B, cx, cy, b, min_bullet) ==
    IF b >= MAX_BULLETS
    THEN min_bullet
    ELSE LET d == DistSq(B[b].x - cx, B[b].y - cy)
         IN  IF B[b].active /\ d < min_bullet
             THEN MinBulletDistSq(B, cx, cy, b + 1, d)
             ELSE MinBulletDistSq(B, cx, cy, b + 1, min_bullet)

\* score of spawn slot si for player_idx: distance to the nearest threat
SpawnScore(P, B, stage, player_idx, si) ==
    LET scx == SpawnPoint(stage, si * 2) + PLAYER_WIDTH \div 2
        scy == SpawnPoint(stage, si * 2 + 1) + PLAYER_HEIGHT \div 2
        min_player == MinPlayerDistSq(P, player_idx, scx, scy)
        min_bullet == MinBulletDistSq(B, scx, scy, 0, FAR_DIST_SQ)
    IN  IF min_player < min_bullet THEN min_player ELSE min_bullet

RECURSIVE SafeSpawnLoop(_, _, _, _, _, _, _, _)
SafeSpawnLoop(P, B, stage, player_idx, preferred, k, best_score, best) ==
    IF k >= 4
    THEN best
    ELSE
      LET si == (preferred + k) % 4
          score == SpawnScore(P, B, stage, player_idx, si)
      IN  IF score > best_score
          THEN SafeSpawnLoop(P, B, stage, player_idx, preferred, k + 1, score,
                   <<SpawnPoint(stage, si * 2), SpawnPoint(stage, si * 2 + 1)>>)
          ELSE SafeSpawnLoop(P, B, stage, player_idx, preferred, k + 1,
                             best_score, best)

choose_safe_respawn_position_unrotated(P, B, current_stage, player_idx) ==
    LET stage == Min(current_stage, 2)
        preferred == player_idx % 4
    IN  SafeSpawnLoop(P, B, stage, player_idx, preferred, 0, -1,
                      <<SpawnPoint(stage, 0), SpawnPoint(stage, 1)>>)

\* player.rs 518-581
choose_safe_respawn_position(P, B, current_stage, player_idx) ==
    LET stage == Min(current_stage, 2)
        preferred == ((Now \div 30) + player_idx) % 4
    IN  SafeSpawnLoop(P, B, stage, player_idx, preferred, 0, -1,
                      <<SpawnPoint(stage, 0), SpawnPoint(stage, 1)>>)

-----------------------------------------------------------------------------
(* player.rs: spawn_players *)

\* u32 values that exceed the integer range are kept as <<high, low>> 16-bit
\* halves.  (i + 1).wrapping_mul(1_103_515_245) ^ TICK
Half == 65536

RECURSIVE Xor16(_, _, _)
Xor16(a, b, n) ==
    IF n = 0 THEN 0
    ELSE (IF (a % 2) # (b % 2) THEN 1 ELSE 0) + 2 * Xor16(a \div 2, b \div 2, n - 1)

SeedAt(i, tick) ==
    LET lo == (i + 1) * 20077
        hi == (i + 1) * 16838 + lo \div Half
    IN  <<Xor16(hi % Half, tick \div Half, 16), Xor16(lo % Half, tick % Half, 16)>>

DeriveSeed(i) == SeedAt(i, Now)

spawn_players_fresh(P, current_stage) ==
    [i \in PlayerIds |->
        IF P[i].active
        THEN LET sp == get_spawn_position(current_stage, i)
             IN  [NewPlayer EXCEPT
                    !.x = sp[1], !.y = sp[2],
                    !.facing_right = (i % 2 = 0),
                    !.active = TRUE,
                    !.ready = P[i].ready,
                    !.is_bot = P[i].is_bot,
                    !.invuln_timer = SPAWN_INVULN_FRAMES,
                    !.ai_seed = IF P[i].ai_seed # <<0, 0>> THEN P[i].ai_seed
                                ELSE DeriveSeed(i),
                    !.spawn_flash = 30]
        ELSE P[i]]

spawn_players(P, current_stage) ==
    [i \in PlayerIds |->
        IF P[i].active
        THEN LET sp == get_spawn_position(current_stage, i)
             IN  [NewPlayer EXCEPT
                    !.x = sp[1], !.y = sp[2],
                    !.facing_right = (i % 2 = 0),
                    !.active = TRUE,
                    !.ready = P[i].ready,
                    !.is_bot = P[i].is_bot,
                    !.invuln_timer = SPAWN_INVULN_FRAMES,
                    !.ai_seed = IF P[i].ai_seed # <<0, 0>> THEN P[i].ai_seed
                                ELSE DeriveSeed(i),
                    !.spawn_flash = 30,
                    !.kills = P[i].kills]
        ELSE P[i]]

-----------------------------------------------------------------------------
(* player.rs: update_player *)

\* Platform collision loop (player.rs 824-857) over platforms k.., on the
\* running values q = [y, vy, on_ground, new_x]
RECURSIVE LandLoop(_, _, _, _, _)
LandLoop(plats, q, new_y, drop_timer, k) ==
    IF k >= MAX_PLATFORMS
    THEN q
    ELSE
      LET platform == plats[k]
      IN  IF ~platform.active \/ drop_timer > 0
          THEN LandLoop(plats, q, new_y, drop_timer, k + 1)
          ELSE IF /\ aabb_overlap(q.new_x, new_y, PLAYER_WIDTH, PLAYER_HEIGHT,
                                  platform.x, platform.y,
                                  platform.width, platform.height)
                  /\ q.vy <= 0
                  /\ q.y >= platform.y + platform.height - 200
          THEN LandLoop(plats,
                        [y |-> platform.y + platform.height, vy |-> 0,
                         on_ground |-> TRUE,
                         new_x |-> IF platform.moving
                                   THEN q.new_x + platform.move_speed
                                   ELSE q.new_x],
                        new_y, drop_timer, k + 1)
          ELSE LandLoop(plats, q, new_y, drop_timer, k + 1)

\* the respawn branch (player.rs 619-648)
Respawn_vulnerable(w, idx) ==
    LET sp == choose_safe_respawn_position(w.P, w.B, w.G.current_stage, idx)
    IN  [w EXCEPT !.P[idx] =
            [@ EXCEPT !.dead = FALSE, !.ammo = MAX_AMMO,
                      !.melee_timer = 0, !.melee_windup = 0,
                      !.spawn_flash = 30, !.shoot_flash = 0,
                      !.squash_stretch = 0,
                      !.jump_buffer = 0, !.coyote_timer = 0, !.drop_timer = 0,
                      !.ai_jump_hold = 0,
                      !.x = sp[1], !.y = sp[2], !.vx = 0, !.vy = 0],
                  !.tr.respawns = Append(@, [player |-> idx,
                                             at |-> Whereabouts(w.P),
                                             bullets |-> w.B])]

\* the respawn branch of update_player (player.rs 618-647)
Respawn(w, idx) ==
    LET sp == choose_safe_respawn_position(w.P, w.B, w.G.current_stage, idx)
    IN  [w EXCEPT !.P[idx] =
            [@ EXCEPT !.dead = FALSE, !.ammo = MAX_AMMO,
                      !.melee_timer = 0, !.melee_windup = 0,
                      !.spawn_flash = 30, !.shoot_flash = 0,
                      !.squash_stretch = 0,
                      !.invuln_timer = SPAWN_INVULN_FRAMES,
                      !.jump_buffer = 0, !.coyote_timer = 0, !.drop_timer = 0,
                      !.ai_jump_hold = 0,
                      !.x = sp[1], !.y = sp[2], !.vx = 0, !.vy = 0],
                  !.tr.respawns = Append(@, [player |-> idx,
                                             at |-> Whereabouts(w.P),
                                             bullets |-> w.B,
                                             to |-> sp,
                                             overtime |-> w.G.overtime,
                                             arena_left |-> w.G.arena_left,
                                             arena_right |-> w.G.arena_right])]

MeleeStep_early(p, melee_pressed) ==
    LET start == melee_pressed /\ p.melee_timer = 0 /\ p.melee_windup = 0
        wu0 == IF start THEN MELEE_WINDUP_DURATION ELSE p.melee_windup
        wu1 == IF wu0 > 0 THEN wu0 - 1 ELSE wu0
        fire == wu0 > 0
        mt0 == IF fire THEN MELEE_DURATION ELSE p.melee_timer
        vx1 == IF fire
               THEN p.vx + (IF p.facing_right THEN 150 ELSE -150)
               ELSE p.vx
        mt1 == IF mt0 > 0 THEN mt0 - 1 ELSE mt0
    IN  [p EXCEPT !.melee_windup = wu1, !.melee_timer = mt1, !.vx = vx1]

\* the melee gate and timers (player.rs 773-792) on the player record p
MeleeStep(p, melee_pressed) ==
    LET start == melee_pressed /\ p.melee_timer = 0 /\ p.melee_windup = 0
        wu0 == IF start THEN MELEE_WINDUP_DURATION ELSE p.melee_windup
        wu1 == IF wu0 > 0 THEN wu0 - 1 ELSE wu0
        fire == wu0 > 0 /\ wu1 = 0
        mt0 == IF fire THEN MELEE_DURATION ELSE p.melee_timer
        vx1 == IF fire
               THEN p.vx + (IF p.facing_right THEN 150 ELSE -150)
               ELSE p.vx
        mt1 == IF mt0 > 0 THEN mt0 - 1 ELSE mt0
    IN  [p EXCEPT !.melee_windup = wu1, !.melee_timer = mt1, !.vx = vx1]

MoveVals_keep_coyote(plats, p, c) ==
    LET input_x == c.x
        input_y == c.y
        accel == IF p.on_ground THEN Mul(MOVE_SPEED, 150) ELSE Mul(MOVE_SPEED, 80)
        friction == IF p.on_ground THEN FRICTION ELSE AIR_FRICTION
        vx1 == clamp(Mul(p.vx + Mul(input_x, accel), friction),
                     -MOVE_SPEED, MOVE_SPEED)
        facing1 == IF abs(input_x) > 300 THEN input_x > 0 ELSE p.facing_right
        coyote1 == IF p.on_ground THEN COYOTE_FRAMES ELSE SatDec(p.coyote_timer)
        jb1 == IF c.jump_pressed THEN JUMP_BUFFER_FRAMES ELSE SatDec(p.jump_buffer)
        \* drop-through
        drop == p.on_ground /\ c.jump_pressed /\ input_y < -600
        dt1 == IF drop THEN DROP_THROUGH_FRAMES ELSE p.drop_timer
        jb2 == IF drop THEN 0 ELSE jb1
        og1 == IF drop THEN FALSE ELSE p.on_ground
        vy1 == IF drop THEN -50 ELSE p.vy
        \* buffered jump
        can_jump == og1 \/ coyote1 > 0
        jump == jb2 > 0 /\ can_jump /\ dt1 = 0
        vy2 == IF jump THEN JUMP_FORCE ELSE vy1
        og2 == IF jump THEN FALSE ELSE og1
        coyote2 == coyote1
        jb3 == IF jump THEN 0 ELSE jb2
        sq1 == IF jump THEN Q ELSE p.squash_stretch
        \* wall jump
        wall_try == c.jump_pressed /\ ~og2 /\ dt1 = 0
        wall_left == wall_try /\ check_wall_collision(plats, p.x - 100, p.y,
                                                      p.y + PLAYER_HEIGHT)
        wall_right == wall_try /\ ~wall_left
                        /\ check_wall_collision(plats, p.x + PLAYER_WIDTH + 100,
                                                p.y, p.y + PLAYER_HEIGHT)
        wall == wall_left \/ wall_right
        vy3 == IF wall THEN Mul(JUMP_FORCE, 900) ELSE vy2
        vx2 == IF wall_left THEN Mul(MOVE_SPEED, 800)
               ELSE IF wall_right THEN -Mul(MOVE_SPEED, 800) ELSE vx1
        facing2 == IF wall_left THEN TRUE
                   ELSE IF wall_right THEN FALSE ELSE facing1
        sq2 == IF wall THEN Q ELSE sq1
        \* variable jump height, gravity, fast fall
        vy4 == IF ~c.jump_held /\ vy3 > 0 THEN Mul(vy3, 500) ELSE vy3
        vy5 == vy4 - GRAVITY
        vy6 == IF ~og2 /\ input_y < FAST_FALL_THRESHOLD
               THEN vy5 - Mul(GRAVITY, FAST_FALL_MULT - Q) ELSE vy5
    IN  [p |-> [p EXCEPT !.vx = vx2, !.vy = vy6, !.facing_right = facing2,
                         !.coyote_timer = coyote2, !.jump_buffer = jb3,
                         !.drop_timer = dt1, !.on_ground = og2,
                         !.squash_stretch = sq2],
         drop |-> drop, jump |-> jump,
         wall_left |-> wall_left, wall_right |-> wall_right,
         jump_buffer |-> jb2, on_ground |-> og1, coyote_timer |-> coyote1,
         drop_timer |-> dt1, vx |-> vx1, vy_jump |-> vy2, vy |-> vy3,
         facing_right |-> facing1]

\* movement and jump part of the living update (player.rs 652-762): the
\* player record it leaves and the values its tests saw
MoveVals(plats, p, c) ==
    LET input_x == c.x
        input_y == c.y
        accel == IF p.on_ground THEN Mul(MOVE_SPEED, 150) ELSE Mul(MOVE_SPEED, 80)
        friction == IF p.on_ground THEN FRICTION ELSE AIR_FRICTION
        vx1 == clamp(Mul(p.vx + Mul(input_x, accel), friction),
                     -MOVE_SPEED, MOVE_SPEED)
        facing1 == IF abs(input_x) > 300 THEN input_x > 0 ELSE p.facing_right
        coyote1 == IF p.on_ground THEN COYOTE_FRAMES ELSE SatDec(p.coyote_timer)
        jb1 == IF c.jump_pressed THEN JUMP_BUFFER_FRAMES ELSE SatDec(p.jump_buffer)
        \* drop-through
        drop == p.on_ground /\ c.jump_pressed /\ input_y < -600
        dt1 == IF drop THEN DROP_THROUGH_FRAMES ELSE p.drop_timer
        jb2 == IF drop THEN 0 ELSE jb1
        og1 == IF drop THEN FALSE ELSE p.on_ground
        vy1 == IF drop THEN -50 ELSE p.vy
        \* buffered jump
        can_jump == og1 \/ coyote1 > 0
        jump == jb2 > 0 /\ can_jump /\ dt1 = 0
        vy2 == IF jump THEN JUMP_FORCE ELSE vy1
        og2 == IF jump THEN FALSE ELSE og1
        coyote2 == IF jump THEN 0 ELSE coyote1
        jb3 == IF jump THEN 0 ELSE jb2
        sq1 == IF jump THEN Q ELSE p.squash_stretch
        \* wall jump
        wall_try == c.jump_pressed /\ ~og2 /\ dt1 = 0
        wall_left == wall_try /\ check_wall_collision(plats, p.x - 100, p.y,
                                                      p.y + PLAYER_HEIGHT)
        wall_right == wall_try /\ ~wall_left
                        /\ check_wall_collision(plats, p.x + PLAYER_WIDTH + 100,
                                                p.y, p.y + PLAYER_HEIGHT)
        wall == wall_left \/ wall_right
        vy3 == IF wall THEN Mul(JUMP_FORCE, 900) ELSE vy2
        vx2 == IF wall_left THEN Mul(MOVE_SPEED, 800)
               ELSE IF wall_right THEN -Mul(MOVE_SPEED, 800) ELSE vx1
        facing2 == IF wall_left THEN TRUE
                   ELSE IF wall_right THEN FALSE ELSE facing1
        sq2 == IF wall THEN Q ELSE sq1
        \* variable jump height, gravity, fast fall
        vy4 == IF ~c.jump_held /\ vy3 > 0 THEN Mul(vy3, 500) ELSE vy3
        vy5 == vy4 - GRAVITY
        vy6 == IF ~og2 /\ input_y < FAST_FALL_THRESHOLD
               THEN vy5 - Mul(GRAVITY, FAST_FALL_MULT - Q) ELSE vy5
    IN  [p |-> [p EXCEPT !.vx = vx2, !.vy = vy6, !.facing_right = facing2,
                         !.coyote_timer = coyote2, !.jump_buffer = jb3,
                         !.drop_timer = dt1, !.on_ground = og2,
                         !.squash_stretch = sq2],
         drop |-> drop, jump |-> jump,
         wall_left |-> wall_left, wall_right |-> wall_right,
         jump_buffer |-> jb2, on_ground |-> og1, coyote_timer |-> coyote1,
         drop_timer |-> dt1, vx |-> vx1, vy_jump |-> vy2, vy |-> vy3,
         facing_right |-> facing1]

IntegrateStep_solid(plats, p) ==
    LET sf == IF p.spawn_flash > 0 THEN p.spawn_flash - 1 ELSE 0
        shf == IF p.shoot_flash > 0 THEN p.shoot_flash - 1 ELSE 0
        sq0 == Mul(p.squash_stretch, SQUASH_DECAY)
        sq1 == IF abs(sq0) < 10 THEN 0 ELSE sq0
        new_x == p.x + p.vx
        new_y == p.y + p.vy
        was_grounded == p.on_ground
        q == LandLoop(plats,
                      [y |-> p.y, vy |-> p.vy, on_ground |-> FALSE,
                       new_x |-> new_x],
                      new_y, 0, 0)
        sq2 == IF ~was_grounded /\ q.on_ground THEN -Q ELSE sq1
        y1 == IF ~q.on_ground \/ q.vy > 0 THEN new_y ELSE q.y
    IN  [p EXCEPT !.spawn_flash = sf, !.shoot_flash = shf,
                  !.squash_stretch = sq2,
                  !.x = q.new_x, !.y = y1, !.vy = q.vy,
                  !.on_ground = q.on_ground,
                  !.drop_timer = SatDec(p.drop_timer)]

\* timers, integration and platform collision (player.rs 794-872)
IntegrateStep(plats, p) ==
    LET sf == IF p.spawn_flash > 0 THEN p.spawn_flash - 1 ELSE 0
        shf == IF p.shoot_flash > 0 THEN p.shoot_flash - 1 ELSE 0
        sq0 == Mul(p.squash_stretch, SQUASH_DECAY)
        sq1 == IF abs(sq0) < 10 THEN 0 ELSE sq0
        new_x == p.x + p.vx
        new_y == p.y + p.vy
        was_grounded == p.on_ground
        q == LandLoop(plats,
                      [y |-> p.y, vy |-> p.vy, on_ground |-> FALSE,
                       new_x |-> new_x],
                      new_y, p.drop_timer, 0)
        sq2 == IF ~was_grounded /\ q.on_ground THEN -Q ELSE sq1
        y1 == IF ~q.on_ground \/ q.vy > 0 THEN new_y ELSE q.y
    IN  [p EXCEPT !.spawn_flash = sf, !.shoot_flash = shf,
                  !.squash_stretch = sq2,
                  !.x = q.new_x, !.y = y1, !.vy = q.vy,
                  !.on_ground = q.on_ground,
                  !.drop_timer = SatDec(p.drop_timer)]

DeadStep_rearm(w, idx) ==
    IF w.P[idx].respawn_timer > 0
    THEN [w EXCEPT !.P[idx].respawn_timer = @ - 1, !.P[idx].ammo = MAX_AMMO]
    ELSE Respawn(w, idx)

\* the update of a dead player (player.rs 615-650)
DeadStep(w, idx) ==
    IF w.P[idx].respawn_timer > 0
    THEN [w EXCEPT !.P[idx].respawn_timer = @ - 1]
    ELSE Respawn(w, idx)

\* level bounds, lethal overtime walls and the fall check (player.rs
\* 874-896); wC is the world after the shot, pD the player after integration
BoundsStep(wC, idx, pD) ==
    LET left == wC.G.arena_left
        right == wC.G.arena_right - PLAYER_WIDTH
        hit_wall == pD.x < left \/ pD.x > right
        pE == [pD EXCEPT !.x = IF pD.x < left THEN left
                               ELSE IF pD.x > right THEN right ELSE pD.x]
    IN  [hit_wall |-> hit_wall,
         w |-> [wC EXCEPT !.P[idx] = pE,
                          !.tr.clamps =
                              IF hit_wall
                              THEN Append(@, [player |-> idx,
                                              overtime |-> wC.G.overtime,
                                              at |-> Whereabouts(
                                                  [wC.P EXCEPT ![idx] = pE])])
                              ELSE @]]

\* the two kills update_player makes itself (player.rs 886-896), on the
\* result e of the bounds step
WallOrFall(e, idx) ==
    Strict(e.w,
        IF e.w.G.overtime /\ e.hit_wall
        THEN KillCall(e.w, idx, overtime_killer_for(e.w.P, idx), "wall")
        ELSE IF e.w.P[idx].y < DEATH_Y
        THEN KillCall(e.w, idx, idx, "fall")
        ELSE e.w)

\* melee, timers, integration and bounds (player.rs 773-896) on the world wC
\* left by the shot
AfterShot(wC, plats, idx, c) ==
    Strict(wC,
        WallOrFall(BoundsStep(wC, idx,
                              IntegrateStep(plats,
                                            MeleeStep(wC.P[idx], c.melee_pressed))),
                   idx))

ShootStep_windup(wB, idx, c) ==
    IF /\ c.shoot_pressed
       /\ wB.P[idx].ammo > 0
       /\ wB.P[idx].melee_timer = 0
    THEN [spawn_bullet(wB, idx, c.x, c.y) EXCEPT
             !.P[idx].ammo = @ - 1,
             !.P[idx].shoot_flash = SHOOT_FLASH_DURATION,
             !.tr.shots = Append(@, idx)]
    ELSE wB

\* the shot (player.rs 764-771) on the world wB holding the moved player
ShootStep(wB, idx, c) ==
    IF /\ c.shoot_pressed
       /\ wB.P[idx].ammo > 0
       /\ wB.P[idx].melee_timer = 0
       /\ wB.P[idx].melee_windup = 0
    THEN [spawn_bullet(wB, idx, c.x, c.y) EXCEPT
             !.P[idx].ammo = @ - 1,
             !.P[idx].shoot_flash = SHOOT_FLASH_DURATION,
             !.tr.shots = Append(@, idx)]
    ELSE wB

\* the update of a living player (player.rs 652-896) given what read_controls
\* returned: the controls rc.c and the player record rc.p
\* the living update from the shot on, mv being what the movement part did
\* with the controls c
Moved(w, plats, idx, c, mv) ==
    AfterShot(ShootStep([w EXCEPT
                           !.P[idx] = mv.p,
                           !.tr.lives = Append(@,
                               [player |-> idx, c |-> c,
                                move |-> [mv EXCEPT !.p = w.P[idx]]])],
                        idx, c),
              plats, idx, c)

LiveStep(w, plats, idx, rc) ==
    Moved(w, plats, idx, rc.c, MoveVals(plats, rc.p, rc.c))

update_player(w, plats, idx, pad) ==
    IF ~w.P[idx].active
    THEN w
    ELSE IF w.P[idx].dead
    THEN DeadStep(w, idx)
    ELSE LiveStep(w, plats, idx,
                  read_controls([w.P EXCEPT ![idx].invuln_timer = SatDec(@)],
                                w.B, idx, pad))

-----------------------------------------------------------------------------
(* The tick function: match flow *)

MIN_ARENA_WIDTH == 2500
OVERTIME_SHRINK == 10

\* the four gameplay calls of the Playing phase, in their order
RECURSIVE UpdatePlayersFrom(_, _, _, _)
UpdatePlayersFrom(w, plats, pads, i) ==
    IF i >= MAX_PLAYERS
    THEN w
    ELSE Strict(w, UpdatePlayersFrom(update_player(w, plats, i, pads[i]),
                                     plats, pads, i + 1))

GameplayStep(w, plats, pads) ==
    update_melee_hits(update_bullets(UpdatePlayersFrom(w, plats, pads, 0), plats))

RoundClock_left_only(G) ==
    IF CONFIG.round_time_seconds = 0
    THEN G
    ELSE IF ~G.overtime
    THEN LET left == SatDec(G.round_time_left)
         IN  [G EXCEPT !.round_time_left = left, !.overtime = (left = 0)]
    ELSE IF G.arena_right - G.arena_left - 2 * OVERTIME_SHRINK >= MIN_ARENA_WIDTH
    THEN [G EXCEPT !.arena_left = @ + 2 * OVERTIME_SHRINK]
    ELSE [G EXCEPT !.arena_left = -(MIN_ARENA_WIDTH \div 2),
                   !.arena_right = MIN_ARENA_WIDTH \div 2]

\* round timer, overtime entry and arena shrink
RoundClock(G) ==
    IF CONFIG.round_time_seconds = 0
    THEN G
    ELSE IF ~G.overtime
    THEN LET left == SatDec(G.round_time_left)
         IN  [G EXCEPT !.round_time_left = left, !.overtime = (left = 0)]
    ELSE IF G.arena_right - G.arena_left - 2 * OVERTIME_SHRINK >= MIN_ARENA_WIDTH
    THEN [G EXCEPT !.arena_left = @ + OVERTIME_SHRINK,
                   !.arena_right = @ - OVERTIME_SHRINK]
    ELSE [G EXCEPT !.arena_left = -(MIN_ARENA_WIDTH \div 2),
                   !.arena_right = MIN_ARENA_WIDTH \div 2]

\* stage of the next round under the configured policy; rnd is the value
\* drawn from the host's random range 0..NUM_STAGES-1
NextStage_stuck(current_stage, rnd) ==
    IF CONFIG.stage_select < NUM_STAGES THEN CONFIG.stage_select
    ELSE IF CONFIG.stage_select = NUM_STAGES THEN rnd
    ELSE current_stage % NUM_STAGES

NextStage(current_stage, rnd) ==
    IF CONFIG.stage_select < NUM_STAGES THEN CONFIG.stage_select
    ELSE IF CONFIG.stage_select = NUM_STAGES THEN rnd
    ELSE (current_stage + 1) % NUM_STAGES

\* reset_round on the world w and platform table
reset_round(w, stage) ==
    [w EXCEPT !.B = [b \in BulletIds |-> [w.B[b] EXCEPT !.active = FALSE]],
              !.P = spawn_players(w.P, stage),
              !.G = [w.G EXCEPT !.current_stage = stage,
                                !.phase = "Countdown",
                                !.countdown = COUNTDOWN_TICKS,
                                !.round_end_timer = 0,
                                !.round_time_left = round_time_limit_ticks,
                                !.overtime = FALSE,
                                !.arena_left = -10000,
                                !.arena_right = 10000]]

reset_match(w) ==
    reset_round([w EXCEPT !.P = [i \in PlayerIds |-> [w.P[i] EXCEPT !.kills = 0]]],
                0)

World ==
    [P |-> PLAYERS, B |-> BULLETS, G |-> GAME_STATE, HF |-> HIT_FREEZE,
     bh |-> bhist, tr |-> NoTrace]

Humans == {i \in PlayerIds : PLAYERS[i].active /\ ~PLAYERS[i].is_bot}

\* the sets of buttons a pad may hold down in one sample
HeldChoices ==
    { {}, {BUTTON_LEFT}, {BUTTON_RIGHT}, {BUTTON_A}, {BUTTON_DOWN, BUTTON_A},
      {BUTTON_B}, {BUTTON_X} }

\* the pad samples of one tick given the buttons each pad held before
PadsOf(h) == [i \in PlayerIds |-> Pad(0, 0, h[i], h[i] \ padHeld[i])]

\* the melee press of update_player was accepted for what the living update
\* e met (player.rs 774)
MeleeGate(e) ==
    e.c.melee_pressed /\ e.move.p.melee_timer = 0 /\ e.move.p.melee_windup = 0

\* the swing count h of player i after the tick that left the world w
SwingClock(h, i, w) ==
    LET updated == \E n \in 1 .. Len(w.tr.lives) : w.tr.lives[n].player = i
        accepted == \E n \in 1 .. Len(w.tr.lives) :
                        w.tr.lives[n].player = i /\ MeleeGate(w.tr.lives[n])
        h0 == IF accepted THEN [NoSwing EXCEPT !.pressed = TRUE] ELSE h
    IN  IF w.tr.reset THEN NoSwing
        ELSE IF ~updated THEN h
        ELSE IF w.P[i].melee_timer > 0 THEN [h0 EXCEPT !.live = @ + 1]
        ELSE IF w.P[i].melee_windup > 0 THEN [h0 EXCEPT !.wait = @ + 1]
        ELSE h0

\* the jump history h of player i after the tick that left the world w
JumpClock(h, i, w) ==
    IF w.tr.reset THEN NoJump
    ELSE IF \E n \in 1 .. Len(w.tr.lives) :
               w.tr.lives[n].player = i /\ w.tr.lives[n].move.jump
    THEN [NoJump EXCEPT !.launches = Min(h.launches + 1, 2)]
    ELSE [h EXCEPT
            !.grounded = @ \/ \E n \in 1 .. Len(w.tr.lives) :
                                 /\ w.tr.lives[n].player = i
                                 /\ w.tr.lives[n].move.p.on_ground,
            !.pressed = @ \/ \E n \in 1 .. Len(w.tr.lives) :
                                /\ w.tr.lives[n].player = i
                                /\ w.tr.lives[n].c.jump_pressed]

Install(w, plats) ==
    /\ PLAYERS' = w.P
    /\ BULLETS' = w.B
    /\ GAME_STATE' = w.G
    /\ HIT_FREEZE' = w.HF
    /\ bhist' = w.bh
    /\ trace' = w.tr
    /\ PLATFORMS' = plats
    /\ match' = IF w.tr.rematch
                THEN NewMatch
                ELSE [match EXCEPT
                        !.final_ko_entries =
                            IF GAME_STATE.phase # "FinalKo" /\ w.G.phase = "FinalKo"
                            THEN @ + 1 ELSE @,
                        !.victories =
                            IF ~(GAME_STATE.phase # "FinalKo"
                                 /\ w.G.phase = "FinalKo") /\ w.tr.victory
                            THEN @ + 1 ELSE @,
                        !.melee = [i \in PlayerIds |-> SwingClock(@[i], i, w)],
                        !.jump = [i \in PlayerIds |-> JumpClock(@[i], i, w)]]

Clock(h) ==
    /\ ticksLeft > 0
    /\ ticksLeft' = ticksLeft - 1
    /\ TICK' = TICK + 1
    /\ padHeld' = h
    /\ inputTicksLeft' = IF GAME_STATE.phase = "Playing" /\ ~is_frozen(HIT_FREEZE)
                         THEN SatDec(inputTicksLeft)
                         ELSE inputTicksLeft
    /\ UNCHANGED CONFIG

\* the pads' held buttons in a tick: free while the input budget lasts
HeldSamples ==
    IF inputTicksLeft > 0
    THEN {[i \in PlayerIds |-> IF i \in Humans THEN g[i] ELSE {}] :
            g \in [Humans -> HeldChoices]}
    ELSE {[i \in PlayerIds |-> {}]}

\* the values the host's random range can give the stage policy
StageDraws ==
    IF CONFIG.stage_select = NUM_STAGES THEN 0 .. (NUM_STAGES - 1) ELSE {0}

UpdateCountdown ==
    /\ GAME_STATE.phase = "Countdown"
    /\ Clock([i \in PlayerIds |-> {}])
    /\ Install([World EXCEPT !.G =
                  IF GAME_STATE.countdown > 0
                  THEN [GAME_STATE EXCEPT !.countdown = @ - 1]
                  ELSE [GAME_STATE EXCEPT !.phase = "Playing"]],
               PLATFORMS)
    /\ UNCHANGED ROUND_NUMBER

UpdateFrozen ==
    /\ GAME_STATE.phase = "Playing"
    /\ is_frozen(HIT_FREEZE)
    /\ Clock([i \in PlayerIds |-> {}])
    /\ Install([World EXCEPT !.HF = update_hit_freeze(HIT_FREEZE)], PLATFORMS)
    /\ UNCHANGED ROUND_NUMBER

\* end of a Playing tick on the world w1 left by the gameplay calls: the
\* round-end pause counts down and, when it runs out, the next round starts
EndOfTick(w1, plats) ==
    LET ending == w1.G.phase = "Playing" /\ w1.G.round_end_timer = 1
        w2 == IF w1.G.phase = "Playing" /\ w1.G.round_end_timer > 0
              THEN [w1 EXCEPT !.G.round_end_timer = @ - 1]
              ELSE w1
    IN  IF ending
        THEN /\ \E rnd \in StageDraws :
                  Install([reset_round(w2, NextStage(w1.G.current_stage, rnd))
                              EXCEPT !.tr.reset = TRUE],
                          setup_current_stage(
                              plats, NextStage(w1.G.current_stage, rnd)))
             /\ ROUND_NUMBER' = ROUND_NUMBER + 1
        ELSE /\ Install(w2, plats)
             /\ UNCHANGED ROUND_NUMBER

\* a Playing tick with the pads pads on the moved platforms plats
PlayingTick(plats, pads) ==
    EndOfTick(GameplayStep([World EXCEPT !.G = RoundClock(GAME_STATE),
                                         !.tr.gameplay = TRUE],
                           plats, pads),
              plats)

UpdatePlaying ==
    /\ GAME_STATE.phase = "Playing"
    /\ ~is_frozen(HIT_FREEZE)
    /\ \E h \in HeldSamples :
         /\ Clock(h)
         /\ PlayingTick(update_platforms(PLATFORMS), PadsOf(h))

\* the FinalKo hold on the game state G
FinalKoHold_none(G) == [G EXCEPT !.phase = "MatchEnd"]

FinalKoHold(G) ==
    IF G.final_ko_timer > 0
    THEN [G EXCEPT !.final_ko_timer = @ - 1]
    ELSE [G EXCEPT !.phase = "MatchEnd"]

\* FinalKo: hold, then MatchEnd with the victory effects
UpdateFinalKo ==
    /\ GAME_STATE.phase = "FinalKo"
    /\ Clock([i \in PlayerIds |-> {}])
    /\ Install([World EXCEPT
                  !.HF = update_hit_freeze(HIT_FREEZE),
                  !.G = FinalKoHold(GAME_STATE),
                  !.tr.victory = (FinalKoHold(GAME_STATE).phase = "MatchEnd")],
               PLATFORMS)
    /\ UNCHANGED ROUND_NUMBER

\* a new match with the same participants and configuration
StartMatch ==
    /\ Install([reset_match(World) EXCEPT !.tr.reset = TRUE,
                                           !.tr.rematch = TRUE],
               setup_current_stage(PLATFORMS, 0))
    /\ ROUND_NUMBER' = 1

\* MatchEnd: wait; a human match restarts (rematch) or returns to the lobby
UpdateMatchEnd ==
    /\ GAME_STATE.phase = "MatchEnd"
    /\ Clock([i \in PlayerIds |-> {}])
    /\ \E choice \in {"stay", "rematch", "lobby"} :
         /\ choice # "stay" => Humans # {}
         /\ IF choice = "rematch"
            THEN StartMatch
            ELSE /\ Install([World EXCEPT !.G.phase =
                                IF choice = "lobby" THEN "Lobby" ELSE @],
                            PLATFORMS)
                 /\ UNCHANGED ROUND_NUMBER

\* the game-state writes of pausing and of resuming
Pause_forgets(G) == [G EXCEPT !.phase = "Paused"]

Pause(G) == [G EXCEPT !.paused_from = G.phase, !.phase = "Paused"]

Resume_playing(G) == [G EXCEPT !.phase = "Playing"]

Resume(G) == [G EXCEPT !.phase = G.paused_from]

\* a human pauses a running round or countdown; the tick does nothing else
EnterPause ==
    /\ GAME_STATE.phase \in {"Playing", "Countdown"}
    /\ Humans # {}
    /\ inputTicksLeft > 0
    /\ ticksLeft > 0
    /\ ticksLeft' = ticksLeft - 1
    /\ inputTicksLeft' = inputTicksLeft - 1
    /\ TICK' = TICK + 1
    /\ padHeld' = [i \in PlayerIds |-> {}]
    /\ Install([World EXCEPT !.G = Pause(GAME_STATE), !.tr.menu = "pause"],
               PLATFORMS)
    /\ UNCHANGED <<CONFIG, ROUND_NUMBER>>

\* the entries of the pause menu's main page that act on the match
PauseChoices == {"stay", "resume", "restart_round", "restart_match", "lobby"}

\* Paused: nothing runs until the menu leaves the pause
UpdatePaused ==
    /\ GAME_STATE.phase = "Paused"
    /\ Clock([i \in PlayerIds |-> {}])
    /\ \E choice \in PauseChoices :
         IF choice = "restart_match"
         THEN StartMatch
         ELSE /\ Install(
                   IF choice = "resume"
                   THEN [World EXCEPT !.G = Resume(GAME_STATE),
                                      !.tr.menu = "resume"]
                   ELSE IF choice = "restart_round"
                   THEN [reset_round(World, GAME_STATE.current_stage)
                            EXCEPT !.tr.reset = TRUE]
                   ELSE IF choice = "lobby"
                   THEN [World EXCEPT !.G.phase = "Lobby"]
                   ELSE World,
                   IF choice = "restart_round"
                   THEN setup_current_stage(PLATFORMS, GAME_STATE.current_stage)
                   ELSE PLATFORMS)
              /\ UNCHANGED ROUND_NUMBER

\* Lobby: wait, or start a match with the participants resolved
UpdateLobby ==
    /\ GAME_STATE.phase = "Lobby"
    /\ Clock([i \in PlayerIds |-> {}])
    /\ \E start \in BOOLEAN :
         /\ start => Cardinality({i \in PlayerIds : PLAYERS[i].active}) >= 2
         /\ IF start
            THEN StartMatch
            ELSE /\ Install(World, PLATFORMS)
                 /\ UNCHANGED ROUND_NUMBER

Next ==
    \/ UpdateCountdown
    \/ UpdateFrozen
    \/ UpdatePlaying
    \/ UpdateFinalKo
    \/ UpdateMatchEnd
    \/ EnterPause
    \/ UpdatePaused
    \/ UpdateLobby

-----------------------------------------------------------------------------
(* Start states: a round about to start, and rounds in progress *)

\* slot kinds of a start state
Off == "off"
Bot == "bot"
Human == "human"

Slot(kind) ==
    [NewPlayer EXCEPT !.active = (kind # Off), !.ready = (kind # Off),
                      !.is_bot = (kind = Bot)]

\* a living player standing on a platform top at (x, y)
Standing(i, kind, x, y, facing_right, kills) ==
    [Slot(kind) EXCEPT !.x = x, !.y = y, !.on_ground = TRUE,
                       !.facing_right = facing_right,
                       !.coyote_timer = COYOTE_FRAMES,
                       !.ai_seed = IF kind = Bot THEN SeedAt(i, 1) ELSE <<0, 0>>,
                       !.kills = kills]

\* a dead player waiting for its respawn at (x, y)
Fallen(i, kind, x, y, respawn_timer, kills) ==
    [Standing(i, kind, x, y, TRUE, kills) EXCEPT
        !.dead = TRUE, !.respawn_timer = respawn_timer, !.on_ground = FALSE,
        !.coyote_timer = 0]

Config(kills_to_win, round_time_seconds, bot_difficulty) ==
    [NewGameConfig EXCEPT !.kills_to_win = kills_to_win,
                          !.round_time_seconds = round_time_seconds,
                          !.bot_difficulty = bot_difficulty]

HasHuman(P) == \E i \in PlayerIds : P[i].active /\ ~P[i].is_bot

CastOf(cast) == [i \in PlayerIds |-> Slot(cast[i + 1])]

\* Rounds that are about to start (last tick of the countdown): bot matches
\* under every difficulty, and a human against one bot
RoundStarts ==
    { [cfg |-> Config(k, 45, d), stage |-> st, players |-> CastOf(cast)] :
        k \in {1, 2}, d \in {0, 1, 2}, st \in 0 .. 2,
        cast \in { <<Bot, Bot, Bot, Bot>>, <<Bot, Bot, Off, Off>> } }
    \cup
    { [cfg |-> Config(2, 45, 1), stage |-> st,
       players |-> CastOf(<<Human, Bot, Off, Off>>)] : st \in 0 .. 2 }
    \cup
    \* a fixed stage, and a random stage each round
    { [cfg |-> [Config(2, 45, 1) EXCEPT !.stage_select = ps[1]],
       stage |-> ps[2],
       players |-> CastOf(<<Bot, Bot, Off, Off>>)] :
        ps \in {<<1, 1>>, <<NUM_STAGES, 1>>, <<NUM_STAGES, 2>>} }

GROUND_TOP == -1500

\* A round in progress on the grid arena floor, nobody airborne.  idle: the
\* humans never touch their pads.
Duel(cfg, left, overtime, idle, players, shots) ==
    [cfg |-> cfg, left |-> left, overtime |-> overtime, idle |-> idle,
     players |-> players, shots |-> shots]

\* a bullet fired level by owner, age updates ago, now at x
Shot(owner, x, vx, age) ==
    [bullet |-> [x |-> x, y |-> GROUND_TOP + PLAYER_HEIGHT \div 2,
                 vx |-> vx, vy |-> 0, owner |-> owner,
                 lifetime |-> BULLET_LIFETIME - age, active |-> TRUE],
     hist |-> [updates |-> age, deflected |-> FALSE]]

\* the kill that left a player dead for `ago` gameplay ticks started the
\* round-end pause
PAUSE_AGO == 20

\* the longest gap, in gameplay ticks, between two kills of which the second
\* still restarts the round-end pause of the first
KILL_GAP == ROUND_END_TICKS - 1

\* gameplay ticks since the last kill of a state in progress: the latest
\* victim has the largest respawn_timer
RECURSIVE LastKillAgo(_, _, _)
LastKillAgo(players, n, ago) ==
    IF n > MAX_PLAYERS THEN ago
    ELSE LastKillAgo(players, n + 1,
                     IF players[n].active /\ players[n].dead
                     THEN Min(ago, RESPAWN_DELAY - players[n].respawn_timer)
                     ELSE ago)

\* two players facing each other, x1 apart
FaceOffs(kinds, idle, ks, kills0, kills1, xs) ==
    { Duel(Config(k, 45, 1), -10000, FALSE, idle,
           <<Standing(0, kinds[1], 0, GROUND_TOP, TRUE, Min(k0, Max(k, 1) - 1)),
             Standing(1, kinds[2], x1, GROUND_TOP, FALSE, Min(k1, Max(k, 1) - 1)),
             Slot(Off), Slot(Off)>>, <<>>) :
        k \in ks, k0 \in kills0, k1 \in kills1, x1 \in xs }

\* three players in a cluster
Clusters(kind0, idle, ks, xs) ==
    { Duel(Config(k, 45, 1), -10000, FALSE, idle,
           <<Standing(0, kind0, 0, GROUND_TOP, TRUE, 1),
             Standing(1, Bot, 700, GROUND_TOP, FALSE, 1),
             Standing(2, Bot, x2, GROUND_TOP, FALSE, 0),
             Slot(Off)>>, <<>>) :
        k \in ks, x2 \in xs }

\* overtime: slot 0 next to the left wall, the third slot alive (farther or
\* nearer than slot 1), dead or off
Overtimes(kind0, idle, ks, lefts, thirds) ==
    { Duel(Config(k, 45, 1), left, TRUE, idle,
           <<Standing(0, kind0, left + 5, GROUND_TOP, FALSE, 0),
             Standing(1, Bot, left + (IF third = "nearer" THEN 1500 ELSE 900),
                      GROUND_TOP, FALSE, 0),
             IF third = "alive"
             THEN Standing(2, Bot, left + 1500, GROUND_TOP, TRUE, 0)
             ELSE IF third = "nearer"
             THEN Standing(2, Bot, left + 900, GROUND_TOP, TRUE, 0)
             ELSE IF third = "dead"
             THEN Fallen(2, Bot, left + 300, GROUND_TOP,
                         RESPAWN_DELAY - PAUSE_AGO, 0)
             ELSE Slot(Off),
             Slot(Off)>>, <<>>) :
        k \in ks, left \in lefts, third \in thirds }

\* the only living player next to a wall, with and without overtime
Alone(kind0, idle, overtime, left) ==
    { Duel(Config(1, 45, 1), left, overtime, idle,
           <<Standing(0, kind0, left + 5, GROUND_TOP, FALSE, 0),
             Fallen(1, Bot, 0, GROUND_TOP, RESPAWN_DELAY - PAUSE_AGO, 0),
             Slot(Off), Slot(Off)>>, <<>>) }

\* two players who fired at each other, the shots still in flight; the
\* shot of slot 1 lands first
Crossfires(kinds, idle, ks, kills0) ==
    { Duel(Config(k, 45, 1), -10000, FALSE, idle,
           <<[Standing(0, kinds[1], 0, GROUND_TOP, TRUE, k0) EXCEPT
                 !.ammo = MAX_AMMO - 1],
             [Standing(1, kinds[2], 4000, GROUND_TOP, FALSE, 0) EXCEPT
                 !.ammo = MAX_AMMO - 1],
             Slot(Off), Slot(Off)>>,
           <<Shot(0, 2400, BULLET_SPEED, 5), Shot(1, 1200, -BULLET_SPEED, 8)>>) :
        k \in ks, k0 \in kills0 }

\* two shots fired in the same tick by players 0 and 2, each one move from
\* its target, the firers one kill short of the target or further
Volleys(ks, shorts) ==
    { Duel(Config(k, 45, 1), -10000, FALSE, TRUE,
           <<[Standing(0, Human, 0, GROUND_TOP, TRUE, k - 1) EXCEPT
                 !.ammo = MAX_AMMO - 1],
             Standing(1, Human, 3000, GROUND_TOP, FALSE, 0),
             [Standing(2, Human, -1500, GROUND_TOP, FALSE,
                       IF short THEN k - 1 ELSE 0) EXCEPT
                 !.ammo = MAX_AMMO - 1],
             Standing(3, Human, -3000, GROUND_TOP, TRUE, 0)>>,
           <<Shot(0, 2800, BULLET_SPEED, 6), Shot(2, -2300, -BULLET_SPEED, 3)>>) :
        k \in ks, short \in shorts }

\* Four players of whom each was killed KILL_GAP ticks after the one before,
\* so that no round-end pause ran out; the last kill was `ago` gameplay
\* ticks ago and slot 0 is about to respawn
Respawns(kind0, idle, agos) ==
    { Duel(Config(3, 45, 1), -10000, FALSE, idle,
           <<[Fallen(0, kind0, -3000, GROUND_TOP,
                     RESPAWN_DELAY - 3 * KILL_GAP - ago, 0) EXCEPT
                 !.ammo = MAX_AMMO - 2, !.shoot_flash = 2],
             Fallen(1, Bot, 0, GROUND_TOP, RESPAWN_DELAY - 2 * KILL_GAP - ago, 1),
             Fallen(2, Bot, 3000, GROUND_TOP, RESPAWN_DELAY - KILL_GAP - ago, 2),
             Fallen(3, Bot, 6000, GROUND_TOP, RESPAWN_DELAY - ago, 1)>>,
           <<>>) : ago \in agos }

\* the same chain of kills far into overtime, every one of them at a wall
\* of the arena as it was then
LateRespawns(lefts, agos) ==
    { Duel(Config(3, 45, 1), left, TRUE, TRUE,
           <<Fallen(0, Bot, left - OVERTIME_SHRINK * (3 * KILL_GAP + ago),
                    GROUND_TOP, RESPAWN_DELAY - 3 * KILL_GAP - ago, 0),
             Fallen(1, Bot, left - OVERTIME_SHRINK * (2 * KILL_GAP + ago),
                    GROUND_TOP, RESPAWN_DELAY - 2 * KILL_GAP - ago, 1),
             Fallen(2, Bot, left - OVERTIME_SHRINK * (KILL_GAP + ago),
                    GROUND_TOP, RESPAWN_DELAY - KILL_GAP - ago, 1),
             Fallen(3, Bot, left - OVERTIME_SHRINK * ago, GROUND_TOP,
                    RESPAWN_DELAY - ago, 1)>>,
           <<>>) : left \in lefts, ago \in agos }

\* a bot in the middle of a swing that met nobody, a human beyond its reach
Whiffs(x1s) ==
    { Duel(Config(2, 45, 1), -10000, FALSE, FALSE,
           <<[Standing(0, Bot, 0, GROUND_TOP, TRUE, 1) EXCEPT
                 !.melee_timer = MELEE_DURATION - 2,
                 !.ai_melee_cooldown = 15],
             Standing(1, Human, x1, GROUND_TOP, FALSE, 0),
             Slot(Off), Slot(Off)>>, <<>>) : x1 \in x1s }

\* the top of the left platform of the grid arena and its right edge
LEDGE_TOP == 1400
LEDGE_END == -3000

\* what a human can be in the middle of, on the grid arena: out of ammo, in
\* a windup, in a swing, up on the left platform, just past its right edge
\* (beside it, or clear of it), well below its top beside its right side,
\* and coming down on the floor
Poses ==
    LET floor == Standing(0, Human, 0, GROUND_TOP, TRUE, 1)
        air == [floor EXCEPT !.on_ground = FALSE]
    IN  { [floor EXCEPT !.ammo = 0],
          [floor EXCEPT !.melee_windup = MELEE_WINDUP_DURATION - 1],
          [floor EXCEPT !.melee_timer = MELEE_DURATION - 4],
          [floor EXCEPT !.x = -5000, !.y = LEDGE_TOP],
          [air EXCEPT !.x = LEDGE_END + 50, !.y = LEDGE_TOP - GRAVITY,
                      !.vx = 120, !.vy = -GRAVITY,
                      !.coyote_timer = COYOTE_FRAMES - 1],
          [air EXCEPT !.x = LEDGE_END + 120, !.y = LEDGE_TOP - GRAVITY,
                      !.vx = 120, !.vy = -GRAVITY,
                      !.coyote_timer = COYOTE_FRAMES - 1],
          [air EXCEPT !.x = LEDGE_END + 50, !.y = LEDGE_TOP - 1050,
                      !.vx = 0, !.vy = -200, !.coyote_timer = 0],
          [air EXCEPT !.y = GROUND_TOP + 60, !.vy = -30,
                      !.coyote_timer = 0],
          \* three ticks into a drop through the left platform
          [air EXCEPT !.x = -5000, !.y = LEDGE_TOP - 300, !.vy = -125,
                      !.drop_timer = DROP_THROUGH_FRAMES - 3,
                      !.coyote_timer = COYOTE_FRAMES - 2] }

\* a human at the pad in one of these poses, the bot it has just killed
\* waiting for its respawn
Solos ==
    { Duel(Config(3, 45, 1), -10000, FALSE, FALSE,
           <<pose, Fallen(1, Bot, 6000, GROUND_TOP, RESPAWN_DELAY, 0),
             Slot(Off), Slot(Off)>>, <<>>) : pose \in Poses }

Duels ==
    \* played by bots, or by a human who leaves the pad alone
    FaceOffs(<<Bot, Bot>>, TRUE, {0, 1, 2}, {0, 1}, {0, 1}, {900, 3000, 6000})
    \cup FaceOffs(<<Human, Bot>>, TRUE, {1}, {0}, {0}, {900, 3000})
    \* nobody moves: the round runs out of time
    \cup FaceOffs(<<Human, Human>>, TRUE, {2}, {0}, {0}, {6000})
    \cup Clusters(Bot, TRUE, {2, 3}, {1200, 2500})
    \cup Overtimes(Bot, TRUE, {1, 3}, {-3000, -1250}, {"alive", "dead", "off"})
    \cup Overtimes(Human, TRUE, {1, 3}, {-3000, -1250},
                   {"alive", "nearer", "dead", "off"})
    \cup Alone(Human, TRUE, TRUE, -3000)
    \* played by a human
    \cup FaceOffs(<<Human, Bot>>, FALSE, {0, 2}, {1}, {1}, {900, 3000})
    \cup FaceOffs(<<Bot, Human>>, FALSE, {2}, {1}, {1}, {900, 3000})
    \cup Clusters(Human, FALSE, {2}, {1200})
    \cup Overtimes(Human, FALSE, {1, 3}, {-3000}, {"alive", "dead"})
    \cup Alone(Human, FALSE, TRUE, -3000)
    \cup Alone(Human, FALSE, FALSE, -10000)
    \cup Whiffs({2700})
    \cup Solos
    \* a respawn by the timer
    \cup Respawns(Bot, TRUE, 0 .. 3)
    \cup LateRespawns({-3000, -1250}, {0, 1})
    \cup Respawns(Human, FALSE, {0, 2, 3})
    \* shots in flight
    \cup Crossfires(<<Human, Human>>, TRUE, {1, 2}, {0})
    \cup Crossfires(<<Human, Human>>, TRUE, {2, 3}, {1})
    \cup Crossfires(<<Bot, Bot>>, TRUE, {1, 2}, {0})
    \cup Volleys({1, 2}, BOOLEAN)

NoBullets == [b \in BulletIds |-> NewBullet]
NoPlatforms == [k \in PlatformIds |-> NewPlatform]

InitRoundStart ==
    \E sc \in RoundStarts :
        /\ CONFIG = sc.cfg
        /\ TICK = COUNTDOWN_TICKS
        /\ ROUND_NUMBER = IF sc.cfg.stage_select = NUM_STAGES + 1
                          THEN sc.stage + 1 ELSE 1
        /\ PLAYERS = spawn_players(sc.players, sc.stage)
        /\ BULLETS = NoBullets
        /\ bhist = [b \in BulletIds |-> NewBulletHist]
        /\ PLATFORMS = setup_current_stage(NoPlatforms, sc.stage)
        /\ GAME_STATE = [NewGameState EXCEPT
                            !.phase = "Countdown", !.countdown = 0,
                            !.current_stage = sc.stage,
                            !.round_time_left = sc.cfg.round_time_seconds * 60]
        /\ ticksLeft = IF HasHuman(sc.players) THEN MaxDuelTicks ELSE MaxDemoTicks
        /\ inputTicksLeft = IF HasHuman(sc.players) THEN MaxInputTicks ELSE 0

InitDuel ==
    \E sc \in Duels :
        /\ CONFIG = sc.cfg
        /\ TICK = 3000
        /\ ROUND_NUMBER = 1
        /\ PLAYERS = [i \in PlayerIds |-> sc.players[i + 1]]
        /\ BULLETS = [b \in BulletIds |->
                        IF b < Len(sc.shots) THEN sc.shots[b + 1].bullet
                        ELSE NewBullet]
        /\ bhist = [b \in BulletIds |->
                      IF b < Len(sc.shots) THEN sc.shots[b + 1].hist
                      ELSE NewBulletHist]
        /\ PLATFORMS = setup_current_stage(NoPlatforms, 0)
        /\ GAME_STATE = [NewGameState EXCEPT
                            !.phase = "Playing",
                            !.round_end_timer =
                                IF \E n \in 1 .. 4 : sc.players[n].dead
                                THEN KILL_GAP - LastKillAgo(sc.players, 1,
                                                            RESPAWN_DELAY)
                                ELSE 0,
                            !.round_time_left =
                                IF sc.overtime \/ sc.cfg.round_time_seconds = 0
                                THEN 0 ELSE 60,
                            !.overtime = sc.overtime,
                            !.arena_left = sc.left,
                            !.arena_right = -sc.left]
        /\ ticksLeft = IF sc.idle THEN MaxDemoTicks ELSE MaxDuelTicks
        /\ inputTicksLeft = IF sc.idle THEN 0 ELSE MaxInputTicks

\* a player found in the air with its coyote time spent is taken to be in a
\* jump: launched, not on the ground since, no jump press since
MidJump(p) ==
    IF p.active /\ ~p.dead /\ ~p.on_ground /\ p.coyote_timer = 0
    THEN [NoJump EXCEPT !.launches = 1]
    ELSE NoJump

Init ==
    /\ InitRoundStart \/ InitDuel
    /\ HIT_FREEZE = 0
    /\ trace = NoTrace
    /\ match = IF GAME_STATE.phase = "Playing"
               THEN [NewMatch EXCEPT
                       !.jump = [i \in PlayerIds |-> MidJump(PLAYERS[i])]]
               ELSE NewMatch
    /\ padHeld = [i \in PlayerIds |-> {}]

Spec == Init /\ [][Next]_vars

-----------------------------------------------------------------------------
(* kill_player called once more, on a player who is already dead, after the *)
(* tick's own calls                                                          *)

KillAgain ==
    /\ GAME_STATE.phase \in {"Playing", "FinalKo"}
    /\ trace.kills # <<>>
    /\ ticksLeft > 0
    /\ \E victim_idx \in PlayerIds, killer_owner \in PlayerIds :
         /\ PLAYERS[victim_idx].active /\ PLAYERS[victim_idx].dead
         /\ PLAYERS[killer_owner].active
         /\ Install(KillCall([World EXCEPT !.tr = trace], victim_idx,
                             killer_owner, "again"),
                    PLATFORMS)
    /\ ticksLeft' = 0
    /\ UNCHANGED <<CONFIG, TICK, ROUND_NUMBER, padHeld, inputTicksLeft>>

NextKill ==
    \/ Next
    \/ KillAgain

SpecKill == Init /\ [][NextKill]_vars

-----------------------------------------------------------------------------
(* spawn_bullet on its own: pools of every fill, shots fired one by one *)

\* the sets of slots in use: a filled prefix of the pool, the full pool with
\* one hole, with two holes
PoolPatterns ==
    {0 .. (n - 1) : n \in 0 .. MAX_BULLETS}
      \cup {BulletIds \ {h} : h \in BulletIds}
      \cup {BulletIds \ {h, g} : h \in {0, 5, 30}, g \in {7, 31}}

\* the stick positions of a shot
AimChoices == {<<0, 0>>, <<Q, 0>>, <<-Q, Q>>, <<0, -Q>>}

InitPool ==
    \E used \in PoolPatterns :
        /\ CONFIG = Config(2, 45, 1)
        /\ TICK = 3000
        /\ ROUND_NUMBER = 1
        /\ PLAYERS = [i \in PlayerIds |->
                        IF i = 0 THEN Standing(0, Human, 0, GROUND_TOP, TRUE, 0)
                        ELSE IF i = 1
                        THEN Standing(1, Human, 4000, GROUND_TOP, FALSE, 0)
                        ELSE Slot(Off)]
        /\ BULLETS = [b \in BulletIds |->
                        IF b \in used
                        THEN Shot(b % 2, 1000 + 50 * b, BULLET_SPEED, 5).bullet
                        ELSE NewBullet]
        /\ bhist = [b \in BulletIds |->
                      IF b \in used
                      THEN Shot(b % 2, 1000 + 50 * b, BULLET_SPEED, 5).hist
                      ELSE NewBulletHist]
        /\ PLATFORMS = setup_current_stage(NoPlatforms, 0)
        /\ GAME_STATE = [NewGameState EXCEPT !.phase = "Playing",
                                             !.round_time_left = 60]
        /\ HIT_FREEZE = 0
        /\ trace = NoTrace
        /\ match = NewMatch
        /\ padHeld = [i \in PlayerIds |-> {}]
        /\ ticksLeft = MaxPoolShots
        /\ inputTicksLeft = 0

\* one call of spawn_bullet; the firer's pad holds the shoot button
FirePool ==
    /\ ticksLeft > 0
    /\ ticksLeft' = ticksLeft - 1
    /\ \E player_idx \in {i \in PlayerIds : PLAYERS[i].active /\ ~PLAYERS[i].dead},
          aim \in AimChoices :
         /\ Install(spawn_bullet(World, player_idx, aim[1], aim[2]), PLATFORMS)
         /\ padHeld' = [i \in PlayerIds |->
                          IF i = player_idx THEN {BUTTON_B} ELSE {}]
    /\ UNCHANGED <<CONFIG, TICK, ROUND_NUMBER, inputTicksLeft>>

SpecPool == InitPool /\ [][FirePool]_vars

-----------------------------------------------------------------------------
(* setup_current_stage and get_spawn_position on every table the match can *)
(* leave behind and on stage indices in and out of range                   *)

\* the ring void's moving platform one step before it turns at move_max
RingVoidAtTurn ==
    [setup_current_stage(NoPlatforms, 2) EXCEPT
        ![2].x = @ + 274 * 20]

\* <<current_stage, platform table>> before a stage setup
\* ... and, on its way back, one step before it turns at move_min
RingVoidAtTurnBack ==
    [setup_current_stage(NoPlatforms, 2) EXCEPT
        ![2].x = @ - 124 * 20, ![2].move_speed = -@]

StageTables ==
    {<<0, NoPlatforms>>, <<2, RingVoidAtTurn>>, <<2, RingVoidAtTurnBack>>}
      \cup {<<s, setup_current_stage(NoPlatforms, s)>> : s \in 0 .. (NUM_STAGES - 1)}

InitStage ==
    \E st \in StageTables :
        /\ CONFIG = NewGameConfig
        /\ TICK = 3000
        /\ ROUND_NUMBER = 1
        /\ PLAYERS = IF st[2] = NoPlatforms
                     THEN CastOf(<<Human, Bot, Bot, Bot>>)
                     ELSE spawn_players(CastOf(<<Human, Bot, Bot, Bot>>), st[1])
        /\ BULLETS = NoBullets
        /\ bhist = [b \in BulletIds |-> NewBulletHist]
        /\ PLATFORMS = st[2]
        /\ GAME_STATE = IF st[2] = NoPlatforms
                        THEN NewGameState
                        ELSE [NewGameState EXCEPT
                                 !.phase = "Countdown",
                                 !.current_stage = st[1],
                                 !.round_time_left = round_time_limit_ticks]
        /\ HIT_FREEZE = 0
        /\ trace = NoTrace
        /\ match = NewMatch
        /\ padHeld = [i \in PlayerIds |-> {}]
        /\ ticksLeft = MaxStageSteps
        /\ inputTicksLeft = 0

\* a round reset onto stage current_stage: setup_current_stage and
\* spawn_players, which places slot i at get_spawn_position(i)
SetupStage ==
    /\ ticksLeft > 0
    /\ ticksLeft' = ticksLeft - 1
    /\ \E current_stage \in 0 .. MaxStageIndex :
         Install([reset_round(World, current_stage) EXCEPT !.tr.reset = TRUE],
                 setup_current_stage(PLATFORMS, current_stage))
    /\ UNCHANGED <<CONFIG, TICK, ROUND_NUMBER, padHeld, inputTicksLeft>>

\* update_platforms, one call
MoveStage ==
    /\ ticksLeft > 0
    /\ ticksLeft' = ticksLeft - 1
    /\ Install(World, update_platforms(PLATFORMS))
    /\ UNCHANGED <<CONFIG, TICK, ROUND_NUMBER, padHeld, inputTicksLeft>>

NextStageSetup ==
    \/ SetupStage
    \/ MoveStage

SpecStage == InitStage /\ [][NextStageSetup]_vars

-----------------------------------------------------------------------------
(* choose_safe_respawn_position on its own: the update of a dead player     *)
(* whose respawn timer ran out, among opponents and bullets anywhere        *)

\* the half minutes of TICK tried beyond the first
MaxRespawnTurn == 3

\* what an opponent may be: absent, dead, or alive on one of the spawn points
OpponentChoices ==
    {<<"off", 0>>, <<"dead", 0>>} \cup {<<"alive", si>> : si \in 0 .. 3}

\* the one bullet: none, a stale inactive one, or in flight next to a spawn
\* point's centre
BulletChoices ==
    {<<"none", 0>>, <<"stale", 0>>} \cup {<<"flying", si>> : si \in 0 .. 3}

Opponent(j, stage, choice) ==
    IF choice[1] = "off" THEN Slot(Off)
    ELSE IF choice[1] = "dead"
    THEN Fallen(j, Bot, 0, GROUND_TOP, KILL_GAP, 0)
    ELSE Standing(j, Bot, SpawnPoint(stage, choice[2] * 2),
                  SpawnPoint(stage, choice[2] * 2 + 1), TRUE, 0)

BulletNear(stage, choice) ==
    IF choice[1] = "none" THEN NewBullet
    ELSE LET si == choice[2]
         IN  [NewBullet EXCEPT
                !.x = SpawnPoint(stage, si * 2) + PLAYER_WIDTH \div 2 + 700,
                !.y = SpawnPoint(stage, si * 2 + 1) + PLAYER_HEIGHT \div 2,
                !.vx = -BULLET_SPEED, !.owner = 0,
                !.lifetime = IF choice[1] = "stale" THEN 0
                             ELSE BULLET_LIFETIME - 9,
                !.active = (choice[1] # "stale")]

InitRespawn ==
    \E stage \in 0 .. (NUM_STAGES - 1), turn \in 0 .. MaxRespawnTurn,
       late \in {0, 29}, idx \in PlayerIds,
       c1 \in OpponentChoices, c2 \in OpponentChoices, cb \in BulletChoices :
        /\ CONFIG = Config(3, 45, 1)
        /\ TICK = 3000 + 30 * turn + late
        /\ ROUND_NUMBER = 1
        /\ PLAYERS = [j \in PlayerIds |->
                        IF j = idx THEN Fallen(j, Bot, 0, GROUND_TOP, 0, 0)
                        ELSE IF j = (idx + 1) % MAX_PLAYERS
                        THEN Opponent(j, stage, c1)
                        ELSE IF j = (idx + 2) % MAX_PLAYERS
                        THEN Opponent(j, stage, c2)
                        ELSE Opponent(j, stage, <<"dead", 0>>)]
        /\ BULLETS = [b \in BulletIds |->
                        IF b = 1 THEN BulletNear(stage, cb) ELSE NewBullet]
        /\ bhist = [b \in BulletIds |-> NewBulletHist]
        /\ PLATFORMS = setup_current_stage(NoPlatforms, stage)
        /\ GAME_STATE = [NewGameState EXCEPT
                            !.phase = "Playing", !.current_stage = stage,
                            !.round_end_timer = 1,
                            !.round_time_left = 60]
        /\ HIT_FREEZE = 0
        /\ trace = NoTrace
        /\ match = NewMatch
        /\ padHeld = [i \in PlayerIds |-> {}]
        /\ ticksLeft = 1
        /\ inputTicksLeft = 0

\* the update of the player whose respawn timer ran out, in a tick of its own
RespawnCall ==
    /\ ticksLeft > 0
    /\ ticksLeft' = ticksLeft - 1
    /\ TICK' = TICK + 1
    /\ \E idx \in PlayerIds :
         /\ PLAYERS[idx].active /\ PLAYERS[idx].dead
         /\ PLAYERS[idx].respawn_timer = 0
         /\ Install(DeadStep(World, idx), PLATFORMS)
    /\ UNCHANGED <<CONFIG, ROUND_NUMBER, padHeld, inputTicksLeft>>

SpecRespawn == InitRespawn /\ [][RespawnCall]_vars

-----------------------------------------------------------------------------
(* update_bullets on its own: one bullet a step before a point on or near   *)
(* players 1 and 2, who overlap on the grid arena floor                     *)

\* calls of update_bullets in a run
MaxBulletSteps == 2

\* where the bullet is after its next move: clear of both players, in
\* player 1 only (on its left edge, inside), in both players (inside, on
\* the right edge of player 1)
ImpactXs == {-300, 0, 100, 500, 800}

\* ... at the level of the players' feet, which is the top of the floor,
\* just above it, at the height of the gun, or level with the players' heads
ImpactYs == {GROUND_TOP, GROUND_TOP + 1, GROUND_TOP + PLAYER_HEIGHT \div 2,
             GROUND_TOP + PLAYER_HEIGHT}

InitBullet ==
    \E swing \in {0, 5}, facing \in BOOLEAN, other \in {Off, Bot, "dead"},
       owner \in {0, 1}, vx \in {BULLET_SPEED, -BULLET_SPEED},
       x1 \in ImpactXs \cup {12300}, y1 \in ImpactYs,
       lifetime \in {1, 2, BULLET_LIFETIME - 5} :
        /\ CONFIG = Config(3, 45, 1)
        /\ TICK = 3000
        /\ ROUND_NUMBER = 1
        /\ PLAYERS = [i \in PlayerIds |->
                        IF i = 0
                        THEN Standing(0, Bot, -6000, GROUND_TOP, TRUE, 0)
                        ELSE IF i = 1
                        THEN [Standing(1, Bot, 0, GROUND_TOP, facing, 0) EXCEPT
                                 !.melee_timer = swing]
                        ELSE IF i = 2 /\ other = Bot
                        THEN Standing(2, Bot, 400, GROUND_TOP, FALSE, 0)
                        ELSE IF i = 2 /\ other = "dead"
                        THEN Fallen(2, Bot, 400, GROUND_TOP, KILL_GAP, 0)
                        ELSE Slot(Off)]
        /\ BULLETS = [b \in BulletIds |->
                        IF b = 2
                        THEN [x |-> x1 - vx, y |-> y1, vx |-> vx, vy |-> 0,
                              owner |-> owner, lifetime |-> lifetime,
                              active |-> TRUE]
                        ELSE NewBullet]
        /\ bhist = [b \in BulletIds |->
                      IF b = 2
                      THEN [updates |-> BULLET_LIFETIME - lifetime,
                            deflected |-> owner = 1]
                      ELSE NewBulletHist]
        /\ PLATFORMS = setup_current_stage(NoPlatforms, 0)
        /\ GAME_STATE = [NewGameState EXCEPT
                            !.phase = "Playing",
                            !.round_end_timer =
                                IF other = "dead" THEN 1 ELSE 0,
                            !.round_time_left = 60]
        /\ HIT_FREEZE = 0
        /\ trace = NoTrace
        /\ match = NewMatch
        /\ padHeld = [i \in PlayerIds |-> {}]
        /\ ticksLeft = MaxBulletSteps
        /\ inputTicksLeft = 0

\* one call of update_bullets
BulletsCall ==
    /\ ticksLeft > 0
    /\ ticksLeft' = ticksLeft - 1
    /\ Install(update_bullets(World, PLATFORMS), PLATFORMS)
    /\ UNCHANGED <<CONFIG, TICK, ROUND_NUMBER, padHeld, inputTicksLeft>>

SpecBullet == InitBullet /\ [][BulletsCall]_vars

-----------------------------------------------------------------------------
(* Properties of the tick.  trace holds what the last tick did. *)

Recs(s) == {s[k] : k \in 1 .. Len(s)}
Idx(s) == 1 .. Len(s)

\* C2: a kill by another player that brings the killer's kills to the
\* kills-to-win (a configured 0 counts as 1) sets the phase to FinalKo, no
\* kill sets it to MatchEnd, a gameplay tick never ends in MatchEnd, and a
\* match enters FinalKo at most once (exactly once when it reaches FinalKo or
\* MatchEnd).
C2_FinalKoOnce ==
    /\ \A k \in Recs(trace.kills) :
         /\ (~k.was_dead /\ k.killer # k.victim
               /\ k.kills_after[k.killer] >= Max(CONFIG.kills_to_win, 1))
            => k.phase_after = "FinalKo"
         /\ k.phase_after # "MatchEnd"
         /\ k.phase_after # k.phase_before
            => (k.phase_before = "Playing" /\ k.phase_after = "FinalKo")
    /\ trace.gameplay => GAME_STATE.phase # "MatchEnd"
    /\ match.final_ko_entries <= 1
    /\ GAME_STATE.phase \in {"FinalKo", "MatchEnd"} => match.final_ko_entries = 1

\* a first kill wins a match configured with kills-to-win 0
C2_Witness ==
    /\ CONFIG.kills_to_win = 0
    /\ match.final_ko_entries = 1
    /\ \E k \in Recs(trace.kills) :
         /\ k.killer # k.victim
         /\ k.kills_after[k.killer] = 1
         /\ k.phase_before = "Playing" /\ k.phase_after = "FinalKo"

\* C3 as stated: a victim on whom kill_player is called several times in a
\* tick, at least once for another player, gives exactly one point to exactly
\* one killer.
C3_OnePointPerVictim ==
    \A v \in PlayerIds :
        LET calls == {n \in Idx(trace.kills) : trace.kills[n].victim = v}
            scoring == {n \in calls : trace.kills[n].kills_after
                                        # trace.kills[n].kills_before}
        IN  (/\ Cardinality(calls) >= 2
             /\ \E n \in calls : trace.kills[n].killer # v) =>
               /\ Cardinality(scoring) = 1
               /\ \A n \in scoring :
                    \E j \in PlayerIds \ {v} :
                        trace.kills[n].kills_after =
                            [trace.kills[n].kills_before EXCEPT ![j] = @ + 1]

\* C3: kill_player on a victim who is already dead changes nothing (kills,
\* respawn_timer, phase, winner_idx, round_end_timer, bullets, hit freeze),
\* so of the calls made on one victim in a tick only the first, which found
\* the victim alive, can score: one point to its killer, and none when that
\* call was a self-kill.
C3_IdempotentKill ==
    /\ \A k \in Recs(trace.kills) :
         k.was_dead =>
            /\ k.same
            /\ k.kills_after = k.kills_before
            /\ k.rt_after = k.rt_before /\ k.dead_after
            /\ k.phase_after = k.phase_before
            /\ k.winner_after = k.winner_before
            /\ k.ret_after = k.ret_before
    /\ \A v \in PlayerIds :
         LET calls == {n \in Idx(trace.kills) : trace.kills[n].victim = v}
             alive == {n \in calls : ~trace.kills[n].was_dead}
             scoring == {n \in calls : trace.kills[n].kills_after
                                         # trace.kills[n].kills_before}
         IN  /\ Cardinality(alive) <= 1
             /\ scoring \subseteq alive
             /\ \A n \in alive :
                  LET k == trace.kills[n]
                  IN  /\ \A m \in calls : n <= m
                      /\ IF k.killer = v
                         THEN scoring = {}
                         ELSE /\ scoring = {n}
                              /\ k.kills_after =
                                   [k.kills_before EXCEPT ![k.killer] = @ + 1]

\* a second call on a victim another player killed earlier in the tick
C3_Witness ==
    \E m, n \in Idx(trace.kills) :
        /\ m < n
        /\ trace.kills[m].victim = trace.kills[n].victim
        /\ ~trace.kills[m].was_dead
        /\ trace.kills[m].killer # trace.kills[m].victim
        /\ trace.kills[n].was_dead
        /\ trace.kills[n].killer # trace.kills[n].victim
        /\ trace.kills[n].same

C4_HitsOfTick ==
    /\ \A h \in Recs(trace.hits) :
         ~h.active_after /\ (~trace.reset => ~BULLETS[h.bullet].active)
    /\ \A m, n \in Idx(trace.hits) :
         trace.hits[m].bullet = trace.hits[n].bullet => m = n
    /\ Cardinality({n \in Idx(trace.kills) : trace.kills[n].source = "bullet"})
         = Len(trace.hits)

C4_HitNeedsLiveBullet ==
    \A h \in Recs(trace'.hits) :
        \/ BULLETS[h.bullet].active
        \/ \E sp \in Recs(trace'.spawns) : sp.slot = h.bullet

\* C4: in one update_bullets pass a bullet resolves at most one kill, the
\* bullet is inactive right after the kill and at the end of the tick, and
\* only a bullet that was active (or was spawned in this tick) hits anybody.
C4_OneKillPerBullet == []C4_HitsOfTick /\ [][C4_HitNeedsLiveBullet]_vars

\* a bullet killed a player in the last tick
C4_Witness ==
    \E h \in Recs(trace.hits) :
        /\ ~h.active_after
        /\ \E k \in Recs(trace.kills) :
             k.source = "bullet" /\ k.victim = h.victim /\ ~k.was_dead

\* C5 as stated: after the tick's bullet update a deflected bullet is active
\* with the negated velocity, owned by the deflector, with lifetime 120.
C5_DeflectedAfterPass ==
    \A d \in Recs(trace.deflects) :
        ~trace.reset =>
            /\ BULLETS[d.bullet].active
            /\ BULLETS[d.bullet].vx = -d.vx_before
            /\ BULLETS[d.bullet].vy = -d.vy_before
            /\ BULLETS[d.bullet].owner = d.by
            /\ BULLETS[d.bullet].lifetime = BULLET_LIFETIME
            /\ ~d.by_dead_after

\* C5: the deflection itself leaves the bullet active with the negated
\* velocity, owned by the deflector, with lifetime 120, and kills nobody;
\* the bullet goes on to the players after the deflector, who can deflect
\* it again or be hit by it, and only if none does is that its state after
\* the pass.  The deflector is not hit by it in that pass.
C5_DeflectionBranch ==
    \A n \in Idx(trace.deflects) :
        LET d == trace.deflects[n]
            later == {m \in Idx(trace.deflects) :
                        m > n /\ trace.deflects[m].bullet = d.bullet}
            hit == {h \in Recs(trace.hits) : h.bullet = d.bullet}
        IN  /\ d.owner_before # d.by
            /\ d.after.active
            /\ d.after.vx = -d.vx_before /\ d.after.vy = -d.vy_before
            /\ d.after.owner = d.by
            /\ d.after.lifetime = BULLET_LIFETIME
            /\ ~d.by_dead_after
            /\ \A m \in later : trace.deflects[m].by > d.by
            /\ \A h \in hit : h.victim > d.by
            /\ (later = {} /\ hit = {} /\ ~trace.reset)
               => BULLETS[d.bullet] = d.after

\* a deflected bullet that killed a later player in the same pass
C5_Witness ==
    \E d \in Recs(trace.deflects) :
        \E h \in Recs(trace.hits) :
            h.bullet = d.bullet /\ h.killer = d.by /\ ~h.active_after

C6_LifetimeCountsUpdates ==
    \A b \in BulletIds :
        (BULLETS[b].active /\ ~bhist[b].deflected) =>
            /\ BULLETS[b].lifetime = BULLET_LIFETIME - bhist[b].updates
            /\ BULLETS[b].lifetime > 0

C6_LifetimeStep ==
    \A b \in BulletIds :
        (BULLETS[b].active /\ BULLETS'[b].active) =>
            IF ~trace'.gameplay
            THEN BULLETS'[b] = BULLETS[b]
            ELSE IF \E d \in Recs(trace'.deflects) : d.bullet = b
            THEN BULLETS'[b].lifetime = BULLET_LIFETIME
            ELSE BULLETS'[b].lifetime = BULLETS[b].lifetime - 1

\* C6 as stated: an active bullet's lifetime goes down by exactly 1 in every
\* tick that updates bullets.
C6_MinusOneEveryUpdate ==
    [][trace'.gameplay =>
          \A b \in BulletIds :
              (BULLETS[b].active /\ BULLETS'[b].active) =>
                  BULLETS'[b].lifetime = BULLETS[b].lifetime - 1]_vars

\* C6: in a tick that updates bullets an active bullet's lifetime goes down
\* by exactly 1 unless the bullet is deflected in that tick (then it is 120);
\* in every other tick the bullet does not change; a bullet that was never
\* deflected is inactive after at most 120 bullet updates.
C6_BulletLifetime == []C6_LifetimeCountsUpdates /\ [][C6_LifetimeStep]_vars

\* a bullet in flight for more than thirty updates, never deflected
C6_Witness ==
    \E b \in BulletIds :
        /\ BULLETS[b].active /\ ~bhist[b].deflected
        /\ bhist[b].updates > 30
        /\ BULLETS[b].lifetime < BULLET_LIFETIME - 30

\* squared distance between the centres of players i and j of a clamp record
CentreDistSq(at, i, j) ==
    DistSq((at[i].x + PLAYER_WIDTH \div 2) - (at[j].x + PLAYER_WIDTH \div 2),
           (at[i].y + PLAYER_HEIGHT \div 2) - (at[j].y + PLAYER_HEIGHT \div 2))

\* C7: in overtime a living player clamped to an arena bound is killed in
\* that tick; the kill goes to an active living other player at the least
\* squared centre distance (kills +1, win check applied), to the victim only
\* when there is no such player; outside overtime a clamp makes no kill.
C7_LethalOvertimeWall ==
    /\ \A c \in Recs(trace.clamps) :
         LET wall == {n \in Idx(trace.kills) :
                        /\ trace.kills[n].source = "wall"
                        /\ trace.kills[n].victim = c.player}
             Others == {j \in PlayerIds \ {c.player} :
                          c.at[j].active /\ ~c.at[j].dead}
         IN  IF ~c.overtime
             THEN wall = {}
             ELSE /\ Cardinality(wall) = 1
                  /\ \A n \in wall :
                       LET k == trace.kills[n]
                       IN  /\ ~k.was_dead /\ k.dead_after
                           /\ IF Others = {}
                              THEN k.killer = c.player
                              ELSE /\ k.killer \in Others
                                   /\ \A j \in Others :
                                        CentreDistSq(c.at, c.player, k.killer)
                                          <= CentreDistSq(c.at, c.player, j)
                                   /\ k.kills_after[k.killer]
                                        = k.kills_before[k.killer] + 1
                                   /\ k.kills_after[k.killer]
                                        >= Max(CONFIG.kills_to_win, 1)
                                      => k.phase_after = "FinalKo"
    /\ \A k \in Recs(trace.kills) :
         k.source = "wall" =>
            \E c \in Recs(trace.clamps) : c.player = k.victim /\ c.overtime

\* an overtime wall kill credited to slot 2 while slot 1 is alive, farther off
C7_Witness ==
    \E c \in Recs(trace.clamps) :
        /\ c.overtime
        /\ c.at[1].active /\ ~c.at[1].dead
        /\ \E k \in Recs(trace.kills) :
             k.source = "wall" /\ k.victim = c.player /\ k.killer = 2

\* C8: a kill of a living victim by itself changes nobody's kills and leaves
\* the phase alone; any other kill of a living victim adds exactly 1 to the
\* killer's kills and changes no other player's; either way the victim is
\* dead with respawn_timer = RESPAWN_DELAY.  Falls are self-kills.
C8_KillScoring ==
    \A k \in Recs(trace.kills) :
        /\ k.source = "fall" => k.killer = k.victim
        /\ ~k.was_dead =>
             /\ k.dead_after /\ k.rt_after = RESPAWN_DELAY
             /\ IF k.killer = k.victim
                THEN /\ k.kills_after = k.kills_before
                     /\ k.phase_after = k.phase_before
                     /\ k.winner_after = k.winner_before
                ELSE k.kills_after = [k.kills_before EXCEPT ![k.killer] = @ + 1]

\* an overtime wall killed the only living player: a self-kill
C8_Witness ==
    \E k \in Recs(trace.kills) :
        /\ k.source = "wall" /\ k.killer = k.victim /\ ~k.was_dead
        /\ k.kills_after = k.kills_before
        /\ PLAYERS[k.victim].dead
        /\ PLAYERS[k.victim].respawn_timer = RESPAWN_DELAY

\* C9: no player has melee_timer and melee_windup both nonzero.
C9_MeleeExclusive ==
    \A i \in PlayerIds :
        ~(PLAYERS[i].melee_timer > 0 /\ PLAYERS[i].melee_windup > 0)

\* a melee that has just left its windup
C9_Witness ==
    \E i \in PlayerIds :
        /\ PLAYERS[i].melee_timer = MELEE_DURATION - 1
        /\ PLAYERS[i].melee_windup = 0

\* the active players that are dead and waiting for their respawn
Waiting == {i \in PlayerIds : /\ PLAYERS[i].active /\ PLAYERS[i].dead
                              /\ PLAYERS[i].respawn_timer > 0}

\* C10 as stated: a gameplay tick that does not reset the round changes, of
\* a waiting dead player, the respawn timer only.
C10_OnlyTheTimer ==
    [][(trace'.gameplay /\ ~trace'.reset) =>
          \A i \in Waiting :
              PLAYERS'[i] = [PLAYERS[i] EXCEPT !.respawn_timer = @ - 1]]_vars

C10_DeadStep ==
    \A i \in Waiting :
        IF trace'.reset
        THEN TRUE
        ELSE IF ~trace'.gameplay
        THEN PLAYERS'[i] = PLAYERS[i]
        ELSE /\ PLAYERS'[i] = [PLAYERS[i] EXCEPT
                                  !.respawn_timer = @ - 1,
                                  !.kills = PLAYERS'[i].kills]
             /\ PLAYERS'[i].kills - PLAYERS[i].kills
                  = Cardinality({n \in Idx(trace'.hits) :
                                    trace'.hits[n].killer = i})
             /\ \A sp \in Recs(trace'.spawns) : sp.owner # i
             /\ \A k \in Recs(trace'.kills) :
                  k.killer = i => k.source = "bullet"

\* C10: a gameplay tick that does not reset the round changes, of a waiting
\* dead player, the respawn timer (down by 1) and nothing else but its kills,
\* which grow by the kills its bullets in flight make in that tick; the
\* player spawns no bullet and makes no melee or wall kill; a tick without
\* gameplay (hit freeze, FinalKo, MatchEnd) changes nothing of the player.
C10_DeadPlayerFrozen == [][C10_DeadStep]_vars

\* a dead player some gameplay ticks into its wait
C10_Witness ==
    /\ trace.gameplay /\ ~trace.reset
    /\ \E i \in Waiting : PLAYERS[i].respawn_timer < RESPAWN_DELAY - 3

\* the slots of the pool that are not in use
FreeSlots == {b \in BulletIds : ~BULLETS[b].active}

\* the players whose pad holds the shoot button
Firers == {i \in PlayerIds : BUTTON_B \in padHeld'[i]}

C11_SpawnStep ==
    /\ Cardinality(Firers) = 1
    /\ PLAYERS' = PLAYERS /\ GAME_STATE' = GAME_STATE
    /\ HIT_FREEZE' = HIT_FREEZE /\ PLATFORMS' = PLATFORMS
    /\ IF FreeSlots = {}
       THEN BULLETS' = BULLETS /\ trace'.spawns = <<>>
       ELSE \E s \in FreeSlots :
               /\ \A b \in FreeSlots : s <= b
               /\ BULLETS'[s].active
               /\ BULLETS'[s].owner \in Firers
               /\ BULLETS'[s].lifetime = BULLET_LIFETIME
               /\ \A b \in BulletIds \ {s} : BULLETS'[b] = BULLETS[b]
               /\ trace'.spawns = <<[slot |-> s, owner |-> BULLETS'[s].owner]>>

\* C11: spawn_bullet activates exactly the lowest-indexed inactive slot of
\* the pool with owner = firer and lifetime = 120 and leaves every other
\* slot as it was; on a full pool it changes no slot, and in both cases
\* nothing but the pool changes.
C11_BulletPool == [][C11_SpawnStep]_vars

\* a shot that found the pool full and was dropped
C11_Witness ==
    /\ \A b \in BulletIds : BULLETS[b].active
    /\ trace.spawns = <<>>
    /\ \E i \in PlayerIds : BUTTON_B \in padHeld[i]

-----------------------------------------------------------------------------
(* respawn *)

\* the players that a kill_player call of the last tick found alive
KilledInTick(tr) == {tr.kills[k].victim : k \in {n \in Idx(tr.kills) : ~tr.kills[n].was_dead}}

\* the points the last tick's kill_player calls gave player i
PointsInTick(tr, i) ==
    Cardinality({k \in Idx(tr.kills) :
                    /\ ~tr.kills[k].was_dead
                    /\ tr.kills[k].killer = i
                    /\ tr.kills[k].victim # i})

\* the statement as written: alive in the tick in which the timer reaches 0
C12_AliveWhenTimerReachesZero ==
    [][\A i \in PlayerIds :
          (/\ PLAYERS[i].active /\ PLAYERS[i].dead
           /\ PLAYERS[i].respawn_timer = 1
           /\ trace'.gameplay /\ ~trace'.reset)
          => ~PLAYERS'[i].dead]_vars

C12_RespawnStep ==
    \A i \in PlayerIds :
        /\ (PLAYERS[i].active /\ ~PLAYERS[i].dead /\ PLAYERS'[i].dead)
              => PLAYERS'[i].respawn_timer = RESPAWN_DELAY
        /\ (PLAYERS[i].active /\ PLAYERS[i].dead
               /\ trace'.gameplay /\ ~trace'.reset)
              => IF PLAYERS[i].respawn_timer > 0
                 THEN /\ PLAYERS'[i].dead
                      /\ PLAYERS'[i].respawn_timer = PLAYERS[i].respawn_timer - 1
                 ELSE /\ PLAYERS'[i].kills = PLAYERS[i].kills + PointsInTick(trace', i)
                      /\ IF i \in KilledInTick(trace')
                         THEN /\ PLAYERS'[i].dead
                              /\ PLAYERS'[i].respawn_timer = RESPAWN_DELAY
                         ELSE /\ ~PLAYERS'[i].dead
                              /\ PLAYERS'[i].ammo = MAX_AMMO
                              /\ PLAYERS'[i].melee_timer = 0
                              /\ PLAYERS'[i].melee_windup = 0
                              /\ PLAYERS'[i].jump_buffer = 0
                              /\ PLAYERS'[i].coyote_timer = 0
                              /\ PLAYERS'[i].drop_timer = 0
                              /\ PLAYERS'[i].vx = 0 /\ PLAYERS'[i].vy = 0
                              /\ PLAYERS'[i].invuln_timer = SPAWN_INVULN_FRAMES
                              /\ <<PLAYERS'[i].x, PLAYERS'[i].y>> \in
                                    {get_spawn_position(GAME_STATE.current_stage, k) :
                                        k \in 0 .. 3}

\* C12: a dead player stays dead while respawn_timer > 0, the timer (set to
\* RESPAWN_DELAY by the kill) dropping by 1 in every gameplay tick; the
\* gameplay tick that starts with the player dead and respawn_timer = 0, the
\* one after the tick in which the timer reached 0, makes the player alive
\* at a spawn point with ammo = MAX_AMMO, melee_timer = melee_windup = 0,
\* jump_buffer = coyote_timer = drop_timer = 0, velocity (0,0) and
\* invuln_timer = SPAWN_INVULN_FRAMES, and does not change its kills except
\* by the points its own bullets score in that tick.
C12_Respawn ==
    /\ [](\A i \in PlayerIds :
            PLAYERS[i].dead => PLAYERS[i].respawn_timer \in 0 .. RESPAWN_DELAY)
    /\ [][C12_RespawnStep]_vars

C12_Witness ==
    /\ trace.gameplay /\ ~trace.reset
    /\ \E i \in PlayerIds :
         /\ PLAYERS[i].active /\ ~PLAYERS[i].dead
         /\ PLAYERS[i].spawn_flash = 30
         /\ PLAYERS[i].invuln_timer = SPAWN_INVULN_FRAMES
         /\ PLAYERS[i].ammo = MAX_AMMO

-----------------------------------------------------------------------------
(* match flow *)

\* the phases of GamePhase that the match flow makes current
CurrentPhases == {"Title", "Lobby", "Countdown", "Playing", "Paused", "FinalKo",
                  "MatchEnd"}

\* the phases from which the match flow enters phase to
EntriesOf(to) ==
    IF to = "Playing" THEN {"Countdown", "Paused"}
    ELSE IF to = "FinalKo" THEN {"Playing"}
    ELSE IF to = "MatchEnd" THEN {"FinalKo"}
    ELSE IF to = "Paused" THEN {"Playing", "Countdown"}
    ELSE IF to = "Countdown" THEN {"Lobby", "Playing", "Paused", "MatchEnd"}
    ELSE IF to = "Lobby" THEN {"Title", "Paused", "MatchEnd"}
    ELSE {}

C14_PhaseStep ==
    GAME_STATE'.phase # GAME_STATE.phase
      => /\ GAME_STATE.phase \in EntriesOf(GAME_STATE'.phase)
         /\ (GAME_STATE.phase = "Paused" /\ GAME_STATE'.phase = "Playing")
               => GAME_STATE.paused_from = "Playing"

C15_HoldStep ==
    /\ (GAME_STATE.phase # "FinalKo" /\ GAME_STATE'.phase = "FinalKo")
          => GAME_STATE'.final_ko_timer = FINAL_KO_TICKS
    /\ GAME_STATE.phase = "FinalKo"
          => /\ ~trace'.reset
             /\ IF GAME_STATE.final_ko_timer > 0
                THEN /\ GAME_STATE'.phase = "FinalKo"
                     /\ GAME_STATE'.final_ko_timer = GAME_STATE.final_ko_timer - 1
                     /\ match'.victories = match.victories
                ELSE /\ GAME_STATE'.phase = "MatchEnd"
                     /\ match'.victories = match.victories + 1
    /\ GAME_STATE.phase \in {"Countdown", "Playing", "Paused"}
          => match'.victories = 0

\* C15: the match-winning kill leaves final_ko_timer = 75 and
\* round_end_timer = 0; the phase then stays FinalKo, without a round reset,
\* while the timer counts down by one per tick, becomes MatchEnd in the tick
\* that finds the timer at 0, and the victory effects are fired in that tick
\* and in no other tick of the match.
C15_FinalKoHold ==
    /\ [](/\ GAME_STATE.phase = "FinalKo"
             => /\ GAME_STATE.round_end_timer = 0
                /\ GAME_STATE.final_ko_timer \in 0 .. FINAL_KO_TICKS
                /\ match.victories = 0
          /\ GAME_STATE.phase = "MatchEnd" => match.victories = 1)
    /\ [][C15_HoldStep]_vars

C15_Witness ==
    /\ GAME_STATE.phase = "MatchEnd"
    /\ trace.victory
    /\ match.victories = 1
    /\ match.final_ko_entries = 1

\* what a pause must leave alone
Frozen(P, B, plats, G) ==
    <<P, B, plats, G.countdown, G.round_time_left, G.round_end_timer,
      G.overtime, G.arena_left, G.arena_right, G.current_stage,
      G.final_ko_timer, G.winner_idx>>

C20_PauseStep ==
    /\ (GAME_STATE.phase # "Paused" /\ GAME_STATE'.phase = "Paused")
          => /\ GAME_STATE'.paused_from = GAME_STATE.phase
             /\ GAME_STATE.phase \in {"Playing", "Countdown"}
             /\ Frozen(PLAYERS', BULLETS', PLATFORMS', GAME_STATE')
                   = Frozen(PLAYERS, BULLETS, PLATFORMS, GAME_STATE)
    /\ (GAME_STATE.phase = "Paused" /\ ~trace'.reset
           /\ GAME_STATE'.phase # "Lobby")
          => /\ GAME_STATE'.phase \in {"Paused", GAME_STATE.paused_from}
             /\ GAME_STATE'.paused_from = GAME_STATE.paused_from
             /\ Frozen(PLAYERS', BULLETS', PLATFORMS', GAME_STATE')
                   = Frozen(PLAYERS, BULLETS, PLATFORMS, GAME_STATE)

\* C20: pausing from Playing or Countdown records the paused phase in
\* paused_from and resuming returns to exactly that phase; a tick that
\* starts in Paused and neither restarts nor leaves for the lobby, and the
\* tick that enters the pause, change no player, bullet, platform,
\* countdown, round-timer or arena-bound state.
C20_Pause ==
    /\ [](GAME_STATE.phase = "Paused"
            => GAME_STATE.paused_from \in {"Playing", "Countdown"})
    /\ [][C20_PauseStep]_vars

\* a pause of the countdown resumed
C20_Witness ==
    /\ GAME_STATE.phase = "Countdown"
    /\ trace.menu = "resume"
    /\ \E i \in PlayerIds : PLAYERS[i].active

-----------------------------------------------------------------------------
(* stage rotation *)

Rotating == CONFIG.stage_select = NUM_STAGES + 1

\* the active platforms of a table, slot by slot
ActivePlatforms(plats) ==
    [k \in PlatformIds |-> IF plats[k].active THEN plats[k] ELSE NewPlatform]

C16_RotateStep ==
    /\ (Rotating /\ GAME_STATE.phase = "Playing" /\ trace'.reset)
          => /\ GAME_STATE'.current_stage
                   = (GAME_STATE.current_stage + 1) % NUM_STAGES
             /\ ROUND_NUMBER' = ROUND_NUMBER + 1
             /\ ActivePlatforms(PLATFORMS')
                   = setup_current_stage(NoPlatforms, GAME_STATE'.current_stage)
    /\ trace'.rematch => GAME_STATE'.current_stage = 0
    /\ ~trace'.reset => GAME_STATE'.current_stage = GAME_STATE.current_stage

\* C16: under the rotate policy with NUM_STAGES = 3 every round reset after
\* a round's end sets current_stage to (current_stage + 1) mod 3, a new
\* match starts on stage 0, so that round n is played on stage (n - 1) mod 3
\* (0, 1, 2, 0, ...), and current_stage is in 0..2 in every state.
C16_StageRotation ==
    /\ [](/\ GAME_STATE.current_stage \in 0 .. (NUM_STAGES - 1)
          /\ Rotating
               => GAME_STATE.current_stage = (ROUND_NUMBER - 1) % NUM_STAGES)
    /\ [][C16_RotateStep]_vars

\* the fourth round of a rotating match starts on stage 0 again
C16_Witness ==
    /\ Rotating
    /\ trace.reset /\ trace.gameplay /\ ~trace.rematch
    /\ ROUND_NUMBER = NUM_STAGES + 1
    /\ GAME_STATE.current_stage = 0

-----------------------------------------------------------------------------
(* overtime *)

ArenaWidth(G) == G.arena_right - G.arena_left

C17_ShrinkStep ==
    IF trace'.reset
    THEN /\ ~GAME_STATE'.overtime
         /\ GAME_STATE'.arena_left = -10000 /\ GAME_STATE'.arena_right = 10000
    ELSE IF GAME_STATE.overtime /\ trace'.gameplay
              /\ ArenaWidth(GAME_STATE) > MIN_ARENA_WIDTH
    THEN /\ GAME_STATE'.arena_left = GAME_STATE.arena_left + OVERTIME_SHRINK
         /\ GAME_STATE'.arena_right = GAME_STATE.arena_right - OVERTIME_SHRINK
         /\ GAME_STATE'.overtime
    ELSE /\ GAME_STATE'.arena_left = GAME_STATE.arena_left
         /\ GAME_STATE'.arena_right = GAME_STATE.arena_right

-----------------------------------------------------------------------------
(* stages *)

\* the layout setup_current_stage gives stage index s
LayoutOf(s) == IF s < NUM_STAGES THEN s ELSE 0

\* number of platforms of each layout
LayoutSizes == <<4, 7, 6>>

\* C18: after setup_current_stage the active platforms, with all their
\* fields, are those of the layout of current_stage, whatever the table held
\* before (another layout, a moving platform on its way back): 4, 7 and 6
\* platforms, the only moving one being slot 2 of stage 2 with its initial
\* position and speed; every current_stage >= 3 gives the layout of stage 0.
C18_StageSetup ==
    (trace.reset
         => /\ ActivePlatforms(PLATFORMS)
                  = setup_current_stage(NoPlatforms,
                                        LayoutOf(GAME_STATE.current_stage))
            /\ Cardinality({k \in PlatformIds : PLATFORMS[k].active})
                  = LayoutSizes[LayoutOf(GAME_STATE.current_stage) + 1]
            /\ {k \in PlatformIds : PLATFORMS[k].active /\ PLATFORMS[k].moving}
                  = IF GAME_STATE.current_stage = 2 THEN {2} ELSE {}
            /\ \A k \in PlatformIds :
                  PLATFORMS[k].active /\ PLATFORMS[k].moving
                    => PLATFORMS[k].move_speed > 0 /\ PLATFORMS[k].x = -1500)

\* stage 0's layout set up for an out-of-range index over a table that held
\* the ring void, two steps into a run
C18_Witness ==
    /\ trace.reset
    /\ GAME_STATE.current_stage >= NUM_STAGES
    /\ ~PLATFORMS[5].active /\ PLATFORMS[5].x = -2000
    /\ PLATFORMS[2].x = 3000
    /\ ticksLeft = MaxStageSteps - 2

\* the spawn point sp is over an active static platform of the table
OverStaticPlatform(plats, sp) ==
    \E k \in PlatformIds :
        /\ plats[k].active /\ ~plats[k].moving
        /\ plats[k].x <= sp[1]
        /\ sp[1] + PLAYER_WIDTH <= plats[k].x + plats[k].width
        /\ plats[k].y + plats[k].height <= sp[2]

\* C19: on every stage 0..2 with its layout in place, get_spawn_position of
\* slot 0..3 is the stage's table entry for that slot, where spawn_players
\* puts the slot's player, and the extent [x, x + PLAYER_WIDTH] there lies
\* over one active static platform whose top is at or below the spawn y;
\* a slot index above 3 gives the entry of slot 3.
C19_SpawnPoints ==
    ((GAME_STATE.current_stage < NUM_STAGES /\ PLATFORMS[0].active)
         => \A player_idx \in 0 .. MaxSlotIndex :
              /\ get_spawn_position(GAME_STATE.current_stage, player_idx)
                    = <<SPAWN_POINTS[GAME_STATE.current_stage + 1]
                                    [2 * Min(player_idx, 3) + 1],
                        SPAWN_POINTS[GAME_STATE.current_stage + 1]
                                    [2 * Min(player_idx, 3) + 2]>>
              /\ OverStaticPlatform(
                    PLATFORMS,
                    get_spawn_position(GAME_STATE.current_stage, player_idx))
              /\ (trace.reset /\ player_idx \in PlayerIds)
                    => <<PLAYERS[player_idx].x, PLAYERS[player_idx].y>>
                         = get_spawn_position(GAME_STATE.current_stage,
                                              player_idx))

\* the players of a round set up on the ring void, its platform moved since
C19_Witness ==
    /\ GAME_STATE.current_stage = 2
    /\ PLATFORMS[2].active /\ PLATFORMS[2].moving /\ PLATFORMS[2].x > -1500
    /\ PLAYERS[3].active
    /\ <<PLAYERS[3].x, PLAYERS[3].y>> = get_spawn_position(2, MaxSlotIndex)
    /\ ticksLeft < MaxStageSteps

-----------------------------------------------------------------------------
(* C21 *)

SomeKill(s, Test(_)) == \E n \in 1 .. Len(s) : Test(s[n])

FromBullet(k) == k.source = "bullet"
FromMelee(k) == k.source = "melee"
WinsMatch(k) == k.phase_after = "FinalKo"

\* the longest freeze the calls of a gameplay tick asked for
FreezeOfTick(tr) ==
    IF SomeKill(tr.kills, WinsMatch) THEN 12
    ELSE IF SomeKill(tr.kills, FromMelee) THEN 6
    ELSE IF SomeKill(tr.kills, FromBullet) THEN 5
    ELSE IF tr.deflects # <<>> THEN 3
    ELSE 0

C21_FreezeStep ==
    /\ \A n \in 0 .. 12 :
          trigger_hit_freeze(HIT_FREEZE, n) = Max(HIT_FREEZE, n)
    /\ (GAME_STATE.phase = "Playing" /\ is_frozen(HIT_FREEZE)) =>
          /\ PLAYERS' = PLAYERS
          /\ BULLETS' = BULLETS
          /\ PLATFORMS' = PLATFORMS
          /\ ~trace'.gameplay
          /\ IF GAME_STATE'.phase = "Paused"
             THEN HIT_FREEZE' = HIT_FREEZE
             ELSE /\ HIT_FREEZE' = HIT_FREEZE - 1
                  /\ GAME_STATE' = GAME_STATE
    /\ trace'.gameplay =>
          /\ GAME_STATE.phase = "Playing"
          /\ HIT_FREEZE = 0
          /\ HIT_FREEZE' = FreezeOfTick(trace')

\* C21: while the hit-freeze counter is above 0 in Playing a tick changes no
\* player, bullet or platform and takes exactly 1 off the counter (so a
\* freeze of n lasts n ticks and gameplay resumes); trigger_hit_freeze(n)
\* leaves max(counter, n), so that a gameplay tick ends with the longest
\* freeze any of its calls asked for.
C21_HitFreeze == [][C21_FreezeStep]_vars

\* a frozen tick has run in Playing after the freeze of 5 of a bullet kill
C21_Witness ==
    /\ GAME_STATE.phase = "Playing"
    /\ HIT_FREEZE = 4
    /\ ~trace.gameplay
    /\ \E i \in PlayerIds : PLAYERS[i].dead

-----------------------------------------------------------------------------
(* C22 *)

\* slot i as spawn_players leaves an active player on the stage
Spawned(p, stage, i) ==
    /\ p.active /\ ~p.dead
    /\ <<p.x, p.y>> = get_spawn_position(stage, i)
    /\ p.vx = 0 /\ p.vy = 0
    /\ p.ammo = MAX_AMMO
    /\ p.melee_timer = 0 /\ p.melee_windup = 0
    /\ p.respawn_timer = 0
    /\ p.invuln_timer = SPAWN_INVULN_FRAMES

C22_ResetStep ==
    /\ trace'.reset =>
          \A i \in PlayerIds :
            /\ PLAYERS'[i].active = PLAYERS[i].active
            /\ PLAYERS'[i].ready = PLAYERS[i].ready
            /\ PLAYERS'[i].is_bot = PLAYERS[i].is_bot
            /\ PLAYERS'[i].kills = IF trace'.rematch THEN 0 ELSE PLAYERS[i].kills
            /\ IF PLAYERS[i].active
               THEN Spawned(PLAYERS'[i], GAME_STATE'.current_stage, i)
               ELSE PLAYERS'[i] = [PLAYERS[i] EXCEPT !.kills = PLAYERS'[i].kills]
    /\ \A i \in PlayerIds :
          PLAYERS'[i].kills < PLAYERS[i].kills => trace'.rematch

\* C22: a round reset leaves every slot's active, ready and is_bot flags and
\* kills as they were, puts every active player alive at its spawn point of
\* the stage with full ammo, no melee state, zero velocity and the spawn
\* invulnerability, and leaves inactive slots untouched; kills go down only
\* in a match reset, which sets them to 0.
C22_RoundResetKeepsScore == [][C22_ResetStep]_vars

\* a round has been reset with a point on the board
C22_Witness ==
    /\ trace.reset /\ ~trace.rematch
    /\ GAME_STATE.phase = "Countdown"
    /\ \E i \in PlayerIds : PLAYERS[i].active /\ PLAYERS[i].kills > 0
    /\ \E i \in PlayerIds : ~PLAYERS[i].active

-----------------------------------------------------------------------------
(* C23 *)

InSeq(s, x) == \E n \in 1 .. Len(s) : s[n] = x

\* the shoot gate of update_player on what the living update e met
ShootGate(e) ==
    /\ e.c.shoot_pressed
    /\ e.move.p.ammo > 0
    /\ e.move.p.melee_timer = 0
    /\ e.move.p.melee_windup = 0

C23_ShootStep ==
    /\ \A n \in 1 .. Len(trace'.lives) :
          LET e == trace'.lives[n]
              i == e.player
          IN  /\ e.move.p = [PLAYERS[i] EXCEPT !.kills = e.move.p.kills]
              /\ ~PLAYERS[i].is_bot =>
                    e.c.shoot_pressed = (BUTTON_B \in padHeld'[i] \ padHeld[i])
              /\ InSeq(trace'.shots, i) <=> ShootGate(e)
              /\ ~trace'.reset =>
                    PLAYERS'[i].ammo =
                        IF ShootGate(e) THEN PLAYERS[i].ammo - 1
                        ELSE PLAYERS[i].ammo
    /\ \A n \in 1 .. Len(trace'.spawns) :
          /\ InSeq(trace'.shots, trace'.spawns[n].owner)
          /\ \A k \in 1 .. Len(trace'.spawns) :
                trace'.spawns[k].owner = trace'.spawns[n].owner => k = n
    /\ \A n \in 1 .. Len(trace'.shots) :
          \E k \in 1 .. Len(trace'.lives) :
              trace'.lives[k].player = trace'.shots[n]
    /\ \A i \in PlayerIds :
          /\ PLAYERS'[i].ammo \in 0 .. MAX_AMMO
          /\ PLAYERS'[i].ammo > PLAYERS[i].ammo =>
                \/ trace'.reset
                \/ PLAYERS[i].dead /\ ~PLAYERS'[i].dead

\* C23: update_player spawns a bullet only in a tick where shoot is pressed,
\* ammo > 0 and melee_timer = melee_windup = 0; each accepted shot takes
\* exactly 1 off ammo; ammo stays in 0..MAX_AMMO and goes up only at a
\* respawn or a round spawn.
C23_ShootGating == [][C23_ShootStep]_vars

\* a player has fired its last round: the shot was accepted, the bullet
\* is in the pool and ammo is 0
C23_Witness ==
    \E n \in 1 .. Len(trace.spawns) :
        /\ InSeq(trace.shots, trace.spawns[n].owner)
        /\ BULLETS[trace.spawns[n].slot].active
        /\ PLAYERS[trace.spawns[n].owner].ammo = 0

-----------------------------------------------------------------------------
(* C24 *)

\* the swing of a living player ends in this step: its last active tick is
\* behind it
SwingEnds(i) ==
    /\ match.melee[i].pressed
    /\ PLAYERS[i].melee_timer = 1
    /\ PLAYERS'[i].melee_timer = 0
    /\ \E n \in 1 .. Len(trace'.lives) : trace'.lives[n].player = i

\* the claim as written: 3 ticks with the hitbox off (the tick of the press
\* counted or not), then 12 ticks with the hitbox on
C24_ThreeThenTwelveStep ==
    \A i \in PlayerIds :
        SwingEnds(i) =>
            /\ match.melee[i].wait >= MELEE_WINDUP_DURATION
            /\ match.melee[i].live = MELEE_DURATION

C24_MeleeStep ==
    /\ \A n \in 1 .. Len(trace'.lives) :
          LET e == trace'.lives[n]
              i == e.player
              before == e.move.p
              after == PLAYERS'[i]
          IN  ~trace'.reset =>
                /\ MeleeGate(e) =>
                      /\ after.melee_windup = MELEE_WINDUP_DURATION - 1
                      /\ after.melee_timer = 0
                      /\ match'.melee[i] = [pressed |-> TRUE, wait |-> 1, live |-> 0]
                /\ before.melee_windup > 0 =>
                      /\ after.melee_windup = before.melee_windup - 1
                      /\ after.melee_timer =
                            IF before.melee_windup = 1
                            THEN MELEE_DURATION - 1 ELSE 0
                /\ before.melee_timer > 0 =>
                      /\ after.melee_timer = before.melee_timer - 1
                      /\ after.melee_windup = 0
                /\ (~MeleeGate(e) /\ before.melee_windup = 0
                                  /\ before.melee_timer = 0) =>
                      after.melee_windup = 0 /\ after.melee_timer = 0
    /\ \A n \in 1 .. Len(trace'.kills) :
          trace'.kills[n].source = "melee" =>
              trace'.lives # <<>> /\
              \E k \in 1 .. Len(trace'.lives) :
                  /\ trace'.lives[k].player = trace'.kills[n].killer
                  /\ (trace'.lives[k].move.p.melee_timer > 1
                        \/ trace'.lives[k].move.p.melee_windup = 1)
    /\ \A i \in PlayerIds :
          SwingEnds(i) =>
              /\ match.melee[i].wait = MELEE_WINDUP_DURATION - 1
              /\ match.melee[i].live = MELEE_DURATION - 1

-----------------------------------------------------------------------------
(* C25 *)

C25_JumpStep ==
    \A n \in 1 .. Len(trace'.lives) :
        LET e == trace'.lives[n]
            i == e.player
            before == e.move.p
            at == e.move
        IN  \* the values the jump test reads, from the state before the update
            /\ ~PLAYERS[i].is_bot =>
                  e.c.jump_pressed = (BUTTON_A \in padHeld'[i] \ padHeld[i])
            /\ at.drop = (before.on_ground /\ e.c.jump_pressed /\ e.c.y < -600)
            /\ at.jump_buffer =
                  IF at.drop THEN 0
                  ELSE IF e.c.jump_pressed THEN JUMP_BUFFER_FRAMES
                  ELSE SatDec(before.jump_buffer)
            /\ at.coyote_timer =
                  IF before.on_ground THEN COYOTE_FRAMES
                  ELSE SatDec(before.coyote_timer)
            /\ at.on_ground = (before.on_ground /\ ~at.drop)
            /\ at.drop_timer =
                  IF at.drop THEN DROP_THROUGH_FRAMES ELSE before.drop_timer
            \* the launch
            /\ at.jump = (/\ at.jump_buffer > 0
                          /\ (at.on_ground \/ at.coyote_timer > 0)
                          /\ at.drop_timer = 0)
            /\ at.vy_jump = IF at.jump THEN JUMP_FORCE
                            ELSE IF at.drop THEN -50 ELSE before.vy
            /\ (at.jump /\ ~trace'.reset) =>
                  /\ PLAYERS'[i].jump_buffer = 0
                  /\ PLAYERS'[i].coyote_timer = 0
                  /\ ~PLAYERS'[i].on_ground
            \* no second launch before the ground and a new press
            /\ (at.jump /\ match.jump[i].launches > 0) =>
                  /\ match.jump[i].grounded \/ before.on_ground
                  /\ match.jump[i].pressed \/ e.c.jump_pressed

\* C25: a ground jump (vy = JUMP_FORCE) launches in a tick exactly when, at
\* the jump test of update_player, jump_buffer > 0 and (on_ground or
\* coyote_timer > 0) and drop_timer = 0; the launch leaves jump_buffer =
\* coyote_timer = 0, and after a launch no ground jump launches until the
\* player has started an update on the ground and jump has been pressed anew.
C25_BufferedCoyoteJump == [][C25_JumpStep]_vars

\* a player who had launched before has launched again
C25_Witness ==
    \E n \in 1 .. Len(trace.lives) :
        /\ trace.lives[n].move.jump
        /\ match.jump[trace.lives[n].player].launches = 2
        /\ PLAYERS[trace.lives[n].player].vy > 0

-----------------------------------------------------------------------------
(* C26 *)

Kicked(e) == e.move.wall_left \/ e.move.wall_right

\* C26: the wall-jump kick is applied only to a player who was airborne
\* beside a vertical platform edge; a jump pressed while standing on a
\* platform launches with vy = JUMP_FORCE and leaves the horizontal velocity
\* and the facing to the input rules, the platform under the player not
\* being taken for a wall.
C26_WallJumpStep ==
    \A n \in 1 .. Len(trace'.lives) :
        LET e == trace'.lives[n]
            before == e.move.p
        IN  /\ Kicked(e) => ~before.on_ground
            /\ (before.on_ground /\ e.c.jump_pressed /\ ~e.move.drop) =>
                  /\ e.move.jump
                  /\ ~Kicked(e)
                  /\ e.move.vy = JUMP_FORCE
                  /\ ~trace'.reset =>
                        PLAYERS'[e.player].facing_right = e.move.facing_right

C26_WallJumpOnlyAirborne == [][C26_WallJumpStep]_vars

\* a player standing on the floor and facing left pressed jump with the
\* stick at rest: it left the ground with the kick of a wall jump off a wall
\* to its left, turned to the right
C26_Witness ==
    \E n \in 1 .. Len(trace.lives) :
        LET e == trace.lives[n]
        IN  /\ e.move.p.on_ground /\ e.move.p.y = GROUND_TOP
            /\ ~e.move.p.facing_right /\ e.c.x = 0
            /\ e.c.jump_pressed /\ e.move.jump /\ e.move.wall_left
            /\ e.move.vy = Mul(JUMP_FORCE, 900)
            /\ PLAYERS[e.player].facing_right
            /\ PLAYERS[e.player].vx = Mul(MOVE_SPEED, 800)

-----------------------------------------------------------------------------
(* C27 *)

\* a drop-through is asked for: jump pressed on the ground with the stick
\* or the d-pad down
DropAsked(e) == e.move.p.on_ground /\ e.c.jump_pressed /\ e.c.y < -600

C27_DropStep ==
    /\ \A n \in 1 .. Len(trace'.lives) :
          LET e == trace'.lives[n]
              after == PLAYERS'[e.player]
          IN  /\ DropAsked(e) =>
                    /\ e.move.drop
                    /\ e.move.drop_timer = DROP_THROUGH_FRAMES
                    /\ e.move.jump_buffer = 0
              /\ e.move.drop_timer > 0 =>
                    /\ ~e.move.jump /\ ~Kicked(e)
                    /\ ~trace'.reset =>
                          /\ ~after.on_ground
                          /\ after.drop_timer = e.move.drop_timer - 1
                          /\ after.y = e.move.p.y + after.vy
                          /\ after.y < e.move.p.y
                          /\ DropAsked(e) => after.jump_buffer = 0
    /\ \A i \in PlayerIds :
          PLAYERS'[i].drop_timer > 0 => ~PLAYERS'[i].on_ground

\* C27: a jump press on the ground with the downward input below -0.6 sets
\* drop_timer = DROP_THROUGH_FRAMES, clears the jump buffer and launches
\* neither a ground jump nor a wall jump in that tick; an update that runs
\* with drop_timer > 0 skips the platform collision and both jumps, so the
\* player keeps falling, is not grounded and does not jump until the timer
\* has run out.
C27_DropThrough == [][C27_DropStep]_vars

\* a player who dropped from the top of the left platform is inside it, the
\* timer still running
C27_Witness ==
    \E n \in 1 .. Len(trace.lives) :
        LET e == trace.lives[n]
            now == PLAYERS[e.player]
        IN  /\ DropAsked(e) /\ e.move.p.y = LEDGE_TOP
            /\ now.drop_timer = DROP_THROUGH_FRAMES - 1
            /\ now.y < LEDGE_TOP /\ now.y + PLAYER_HEIGHT > LEDGE_TOP
            /\ ~now.on_ground /\ ~now.dead

-----------------------------------------------------------------------------
(* C28: threat-aware respawn *)

\* the spawn slot tried k-th by player i in a tick that runs with TICK = tick
RotationSlot(tick, i, k) == ((tick \div 30) + i + k) % 4

\* the squared distances from the centre of spawn slot si to every threat
\* that respawn record r saw: living active opponents and active bullets
ThreatsAt(r, stage, si) ==
    LET scx == SpawnPoint(stage, si * 2) + PLAYER_WIDTH \div 2
        scy == SpawnPoint(stage, si * 2 + 1) + PLAYER_HEIGHT \div 2
    IN  { DistSq(r.at[j].x + PLAYER_WIDTH \div 2 - scx,
                 r.at[j].y + PLAYER_HEIGHT \div 2 - scy) :
            j \in { n \in PlayerIds \ {r.player} :
                      r.at[n].active /\ ~r.at[n].dead } }
        \cup { DistSq(r.bullets[b].x - scx, r.bullets[b].y - scy) :
                 b \in { n \in DOMAIN r.bullets : r.bullets[n].active } }
        \cup {FAR_DIST_SQ}

\* the score of slot si: the distance to the nearest threat
NearestThreat(r, stage, si) ==
    CHOOSE m \in ThreatsAt(r, stage, si) :
        \A n \in ThreatsAt(r, stage, si) : m <= n

C28_RespawnStep ==
    ~trace'.reset =>
      \A n \in DOMAIN trace'.respawns :
        LET r == trace'.respawns[n]
            i == r.player
            stage == Min(GAME_STATE.current_stage, 2)
        IN  \E k \in 0 .. 3 :
              LET si == RotationSlot(TICK', i, k)
              IN  /\ PLAYERS'[i].x = SpawnPoint(stage, si * 2)
                  /\ PLAYERS'[i].y = SpawnPoint(stage, si * 2 + 1)
                  /\ \A j \in 0 .. 3 :
                       NearestThreat(r, stage, RotationSlot(TICK', i, j))
                         <= NearestThreat(r, stage, si)
                  /\ \A j \in 0 .. k - 1 :
                       NearestThreat(r, stage, RotationSlot(TICK', i, j))
                         < NearestThreat(r, stage, si)

\* C28: a respawning player is placed on one of the four spawn points of
\* the (clamped) current stage; no other of the four has a strictly larger
\* score (the squared distance to the nearest living active opponent or
\* active bullet), and among the best the first in the rotation that starts
\* at slot ((TICK / 30) + player index) mod 4 is chosen.
C28_ThreatAwareRespawn == [][C28_RespawnStep]_vars

\* a respawn that passed over its preferred slot, where an opponent stood,
\* and chose between two slots of equal score, a bullet in flight elsewhere
C28_Witness ==
    /\ ~trace.reset
    /\ \E n \in DOMAIN trace.respawns :
         LET r == trace.respawns[n]
             i == r.player
             stage == Min(GAME_STATE.current_stage, 2)
             si == RotationSlot(TICK, i, 0)
             at == CHOOSE k \in 0 .. 3 :
                     /\ PLAYERS[i].x = SpawnPoint(stage, RotationSlot(TICK, i, k) * 2)
                     /\ PLAYERS[i].y = SpawnPoint(stage, RotationSlot(TICK, i, k) * 2 + 1)
         IN  /\ NearestThreat(r, stage, si) = 0
             /\ at > 0
             /\ (TICK \div 30) % 4 # 0
             /\ \E b \in DOMAIN r.bullets : r.bullets[b].active
             /\ \E j \in (at + 1) .. 3 :
                  NearestThreat(r, stage, RotationSlot(TICK, i, j))
                    = NearestThreat(r, stage, RotationSlot(TICK, i, at))

-----------------------------------------------------------------------------
(* C29: bullet update order *)

\* the platform table the bullet update of a step reads
PlatformsOfTick == IF trace'.gameplay THEN update_platforms(PLATFORMS)
                                      ELSE PLATFORMS

\* the bullet stops before the player test: spent, out of the screen bounds,
\* or with its point in an active platform
StopsEarly(b, plats) ==
    \/ b.lifetime = 0
    \/ b.x < -12000 \/ b.x > 12000 \/ b.y < -10000 \/ b.y > 10000
    \/ \E k \in PlatformIds :
         /\ plats[k].active
         /\ b.x >= plats[k].x /\ b.x <= plats[k].x + plats[k].width
         /\ b.y >= plats[k].y /\ b.y <= plats[k].y + plats[k].height

\* the owner of bullet bi when player i is tested: the last deflector
\* before i, the owner at the start otherwise
OwnerAtTest(tr, bi, i, owner) ==
    LET turned == {d.by : d \in {e \in Recs(tr.deflects) :
                                    e.bullet = bi /\ e.by < i}}
    IN  IF turned = {} THEN owner
        ELSE CHOOSE m \in turned : \A n \in turned : n <= m

C29_BulletStep ==
    LET plats == PlatformsOfTick
    IN  \* every player test is made on a bullet that passed the earlier steps
        /\ \A r \in Recs(trace'.hits) \cup Recs(trace'.deflects) :
             r.shot.active /\ ~StopsEarly(r.shot, plats)
        /\ \A bi \in BulletIds :
             (BULLETS[bi].active /\ bhist'[bi].updates = bhist[bi].updates + 1)
             => LET b1 == [BULLETS[bi] EXCEPT
                             !.x = @ + BULLETS[bi].vx,
                             !.y = @ + BULLETS[bi].vy,
                             !.lifetime = @ - 1]
                    hits == {r \in Recs(trace'.hits) : r.bullet = bi}
                    turns == {r \in Recs(trace'.deflects) : r.bullet = bi}
                IN  /\ BULLETS'[bi].x = b1.x /\ BULLETS'[bi].y = b1.y
                    /\ \A r \in hits \cup turns :
                         r.shot.x = b1.x /\ r.shot.y = b1.y
                    /\ StopsEarly(b1, plats)
                       => /\ BULLETS'[bi] = [b1 EXCEPT !.active = FALSE]
                          /\ hits = {} /\ turns = {}
                          /\ \A k \in Recs(trace'.kills) :
                               k.source = "bullet" =>
                                 \E r \in Recs(trace'.hits) :
                                   r.victim = k.victim /\ r.bullet # bi
                    /\ Cardinality(hits) <= 1
                    /\ \A h \in hits :
                         /\ \A t \in turns : t.by < h.victim
                         /\ ~trace'.reset
                            => \A i \in 0 .. h.victim - 1 :
                                 ( /\ PLAYERS'[i].active /\ ~PLAYERS'[i].dead
                                   /\ b1.x >= PLAYERS'[i].x
                                   /\ b1.x <= PLAYERS'[i].x + PLAYER_WIDTH
                                   /\ b1.y >= PLAYERS'[i].y
                                   /\ b1.y <= PLAYERS'[i].y + PLAYER_HEIGHT )
                                 => \/ i = OwnerAtTest(trace', bi, i,
                                                       BULLETS[bi].owner)
                                    \/ \E t \in turns : t.by = i
                    /\ \A n, m \in Idx(trace'.deflects) :
                         ( /\ trace'.deflects[n].bullet = bi
                           /\ trace'.deflects[m].bullet = bi /\ n < m )
                         => trace'.deflects[n].by < trace'.deflects[m].by

\* C29: an active bullet is moved, then tested for lifetime expiry, the
\* screen bounds and the active platforms, and only then against the players
\* in increasing index; a bullet that an earlier step deactivates resolves no
\* deflection and no kill in that update, so a bullet whose point is in both
\* a platform and a player, or whose lifetime reaches 0 on a player, kills
\* nobody.
C29_BulletUpdateOrder == [][C29_BulletStep]_vars

\* a bullet stopped at the feet of two living players, its point in the
\* floor and in both of them, one of them swinging: nobody killed, nothing
\* deflected
C29_Witness ==
    \E bi \in BulletIds :
        /\ bhist[bi].updates > 0 /\ ~BULLETS[bi].active
        /\ BULLETS[bi].lifetime > 0
        /\ HitsPlatform(PLATFORMS, BULLETS[bi].x, BULLETS[bi].y)
        /\ trace.hits = <<>> /\ trace.deflects = <<>> /\ trace.kills = <<>>
        /\ \E i, j \in PlayerIds \ {BULLETS[bi].owner} :
             /\ i # j
             /\ PLAYERS[i].melee_timer > 0
             /\ \A n \in {i, j} :
                  /\ PLAYERS[n].active /\ ~PLAYERS[n].dead
                  /\ point_in_aabb(BULLETS[bi].x, BULLETS[bi].y,
                                   PLAYERS[n].x, PLAYERS[n].y,
                                   PLAYER_WIDTH, PLAYER_HEIGHT)

-----------------------------------------------------------------------------
(* C30: moving platforms *)

\* the steps that call update_platforms: a gameplay tick without a round
\* reset, or the call on its own
PlatformsUpdated ==
    /\ ~trace'.reset
    /\ trace'.gameplay \/ (TICK' = TICK /\ ticksLeft' < ticksLeft)

MovingPlatforms(plats) ==
    {k \in PlatformIds : plats[k].active /\ plats[k].moving}

\* as the claim has it: the turn is taken when the left edge is at or below
\* move_min or the right edge at or beyond move_max (edges read after the
\* move, or before it)
C30_RightEdgeStep ==
    PlatformsUpdated =>
      \A k \in MovingPlatforms(PLATFORMS) :
        LET p == PLATFORMS[k]
            q == PLATFORMS'[k]
            turned == q.move_speed = -p.move_speed
        IN  \/ turned <=> (q.x <= p.move_min \/ q.x + p.width >= p.move_max)
            \/ turned <=> (p.x <= p.move_min \/ p.x + p.width >= p.move_max)

C30_TurnsAtRightEdge == [][C30_RightEdgeStep]_vars

C30_PlatformStep ==
    PlatformsUpdated =>
      \A k \in PlatformIds :
        LET p == PLATFORMS[k]
            q == PLATFORMS'[k]
            turned == q.x <= p.move_min \/ q.x >= p.move_max
        IN  IF k \in MovingPlatforms(PLATFORMS)
            THEN /\ q = [p EXCEPT !.x = p.x + p.move_speed,
                                  !.move_speed = IF turned THEN -@ ELSE @]
                 \* after a turn the next update takes none
                 /\ turned => ~(\/ q.x + q.move_speed <= q.move_min
                                \/ q.x + q.move_speed >= q.move_max)
            ELSE q = p

\* the left edge of a moving platform is between move_min and move_max, less
\* than one step beyond, and a platform at or beyond an end heads back
C30_LeftEdgeInRange ==
    \A k \in MovingPlatforms(PLATFORMS) :
        LET p == PLATFORMS[k]
            step == IF p.move_speed < 0 THEN -p.move_speed ELSE p.move_speed
        IN  /\ p.x > p.move_min - step /\ p.x < p.move_max + step
            /\ p.x <= p.move_min => p.move_speed > 0
            /\ p.x >= p.move_max => p.move_speed < 0

\* C30: update_platforms moves each active moving platform by move_speed
\* and negates move_speed exactly in the updates after whose move the left
\* edge x is at or below move_min or at or beyond move_max; the left edge
\* stays within [move_min, move_max] up to one step of overshoot (the right
\* edge reaches move_max + width), the direction never turns in two
\* consecutive updates, and platforms that are not moving or not active are
\* never changed.
C30_PlatformPingPong == []C30_LeftEdgeInRange /\ [][C30_PlatformStep]_vars

\* the ring void's platform just turned at move_max, its right edge a
\* platform's width beyond it
C30_Witness ==
    /\ ~trace.reset
    /\ ticksLeft < MaxStageSteps
    /\ \E k \in MovingPlatforms(PLATFORMS) :
         /\ PLATFORMS[k].x = PLATFORMS[k].move_max
         /\ PLATFORMS[k].move_speed < 0
         /\ PLATFORMS[k].x + PLATFORMS[k].width
              >= PLATFORMS[k].move_max + PLATFORMS[k].width

-----------------------------------------------------------------------------
(* C31: melee hits every overlapping target *)

\* player t's box overlaps the melee hitbox in front of player a, where the
\* players are in P
InMeleeBox(P, a, t) ==
    LET bx == IF P[a].facing_right THEN P[a].x + PLAYER_WIDTH
                                   ELSE P[a].x - MELEE_RANGE
    IN  /\ bx < P[t].x + PLAYER_WIDTH /\ bx + MELEE_RANGE > P[t].x
        /\ P[a].y < P[t].y + PLAYER_HEIGHT /\ P[a].y + PLAYER_HEIGHT > P[t].y

\* the melee kills of a tick
MeleeKills(tr) == {k \in Recs(tr.kills) : k.source = "melee"}

\* player a reached its turn of the melee resolution alive with its hitbox
\* on: whatever killed it in the tick was a melee attacker of higher index.
\* P0, P1 are the players before and after the tick
SwingsInTick(P0, P1, tr, a) ==
    /\ P1[a].active /\ P1[a].melee_timer > 0
    /\ ~P0[a].dead \/ \E r \in Recs(tr.respawns) : r.player = a
    /\ P1[a].dead => \E k \in MeleeKills(tr) : k.victim = a /\ k.killer > a

C31_MeleeStep ==
    (trace'.gameplay /\ ~trace'.reset) =>
      /\ \A a \in PlayerIds, t \in PlayerIds :
           ( /\ a # t
             /\ SwingsInTick(PLAYERS, PLAYERS', trace', a)
             /\ PLAYERS'[t].active
             /\ ~PLAYERS[t].dead \/ \E r \in Recs(trace'.respawns) : r.player = t
             /\ InMeleeBox(PLAYERS', a, t) )
           => /\ PLAYERS'[t].dead
              /\ \E k \in Recs(trace'.kills) :
                   /\ k.victim = t /\ ~k.was_dead
                   /\ \/ k.source # "melee"
                      \/ k.killer <= a
      /\ \A k \in MeleeKills(trace') :
           /\ k.killer # k.victim /\ ~k.was_dead
           /\ SwingsInTick(PLAYERS, PLAYERS', trace', k.killer)
           /\ InMeleeBox(PLAYERS', k.killer, k.victim)
           /\ k.kills_after = [k.kills_before EXCEPT ![k.killer] = @ + 1]

\* C31: in update_melee_hits an active living attacker with melee_timer > 0
\* kills every other active living player whose box overlaps its hitbox
\* (MELEE_RANGE wide, PLAYER_HEIGHT high, in front of it), several in one
\* tick, one point each; an attacker with melee_timer = 0 kills nobody.
C31_MeleeHitsAll == [][C31_MeleeStep]_vars

\* one swing that killed two players in one tick, two points
C31_Witness ==
    /\ trace.gameplay /\ ~trace.reset
    /\ \E k1, k2 \in MeleeKills(trace) :
         /\ k1.killer = k2.killer /\ k1.victim # k2.victim
         /\ k2.kills_after[k2.killer] = k1.kills_before[k1.killer] + 2
         /\ PLAYERS[k1.victim].dead /\ PLAYERS[k2.victim].dead

-----------------------------------------------------------------------------
(* C32: spawn invulnerability *)

\* the kills of a tick that a bullet or a melee hit made of a living player
CombatKills(tr) ==
    {k \in Recs(tr.kills) : k.source \in {"bullet", "melee"} /\ ~k.was_dead}

\* C32: no bullet hit and no melee hit kills a player whose invuln_timer is
\* above 0 at the hit.
C32_InvulnProtects ==
    \A k \in CombatKills(trace) : k.invuln_before = 0

\* a player hit while its invuln_timer was running: dead, the timer cleared,
\* and a point to the killer
C32_Witness ==
    \E k \in CombatKills(trace) :
        /\ k.invuln_before > 0
        /\ PLAYERS[k.victim].dead /\ PLAYERS[k.victim].invuln_timer = 0
        /\ k.killer # k.victim
        /\ k.kills_after[k.killer] = k.kills_before[k.killer] + 1

-----------------------------------------------------------------------------
(* C33: the winner *)

\* the positions in the kill records of a tick of the kills that reached the
\* kill target
WinningKills(tr) ==
    {n \in Idx(tr.kills) :
        LET k == tr.kills[n]
        IN  /\ ~k.was_dead /\ k.killer # k.victim
            /\ k.kills_after[k.killer] >= Max(CONFIG.kills_to_win, 1)}

\* as the claim has it: winner_idx is the killer of the first winning kill
\* of the tick that set the phase to FinalKo
C33_FirstWinnerStep ==
    (GAME_STATE.phase = "Playing" /\ GAME_STATE'.phase = "FinalKo") =>
      \E n \in WinningKills(trace') :
        /\ \A m \in WinningKills(trace') : n <= m
        /\ GAME_STATE'.winner_idx = trace'.kills[n].killer

C33_FirstWinningKill == [][C33_FirstWinnerStep]_vars

C33_WinnerStep ==
    /\ (GAME_STATE.phase = "Playing" /\ GAME_STATE'.phase = "FinalKo") =>
         \E n \in WinningKills(trace') :
           /\ \A m \in WinningKills(trace') : m <= n
           /\ GAME_STATE'.winner_idx = trace'.kills[n].killer
           /\ PLAYERS'[trace'.kills[n].killer].kills
                >= Max(CONFIG.kills_to_win, 1)
    /\ ( /\ GAME_STATE.phase \in {"FinalKo", "MatchEnd"}
         /\ GAME_STATE'.phase \in {"FinalKo", "MatchEnd"} )
       => /\ GAME_STATE'.winner_idx = GAME_STATE.winner_idx
          /\ trace'.kills = <<>>
    /\ \A n \in Idx(trace'.kills) :
         trace'.kills[n].winner_after # trace'.kills[n].winner_before
           => n \in WinningKills(trace')

\* C33: every kill that reaches the kill target writes winner_idx, also one
\* resolved after the kill that set the phase to FinalKo, so after the tick
\* that enters FinalKo winner_idx names the killer of the last winning kill
\* of that tick; from then on no kill is resolved and winner_idx does not
\* change while the phase is FinalKo or MatchEnd.
C33_WinnerOfMatch == [][C33_WinnerStep]_vars

\* two players reached the kill target in one tick: the second is the winner
C33_Witness ==
    /\ GAME_STATE.phase = "FinalKo"
    /\ \E n, m \in WinningKills(trace) :
         /\ n < m
         /\ trace.kills[n].killer # trace.kills[m].killer
         /\ trace.kills[n].phase_after = "FinalKo"
         /\ trace.kills[n].winner_after = trace.kills[n].killer
         /\ GAME_STATE.winner_idx = trace.kills[m].killer

-----------------------------------------------------------------------------
(* C34: same-tick combat tie-break *)

\* the positions in the kill records of a tick of the kills of living player
\* p (at most one)
DeathsOf(tr, p) ==
    {n \in Idx(tr.kills) : tr.kills[n].victim = p /\ ~tr.kills[n].was_dead}

\* players a < b are both in the other's melee hitbox, both hitboxes on, and
\* both came through the tick's updates and bullets alive
FaceToFace(P0, P1, tr, a, b) ==
    /\ a < b
    /\ \A p \in {a, b} :
         /\ P1[p].active /\ P1[p].melee_timer > 0
         /\ ~P0[p].dead \/ \E r \in Recs(tr.respawns) : r.player = p
         /\ \A n \in DeathsOf(tr, p) : tr.kills[n].source = "melee"
    /\ InMeleeBox(P1, a, b) /\ InMeleeBox(P1, b, a)

C34_TieBreakStep ==
    (trace'.gameplay /\ ~trace'.reset) =>
      \* the dead score no melee kill
      /\ \A n \in Idx(trace'.kills) :
           trace'.kills[n].source = "melee"
             => \A m \in DeathsOf(trace', trace'.kills[n].killer) : n < m
      \* the dead deflect no bullet
      /\ \A d \in Recs(trace'.deflects) :
           /\ \A m \in DeathsOf(trace', d.by) :
                trace'.kills[m].source \in {"bullet", "melee"}
           /\ \A h \in Recs(trace'.hits) :
                h.victim = d.by => h.bullet > d.bullet
      \* face to face, the lower index strikes first
      /\ \A a \in PlayerIds, b \in PlayerIds :
           FaceToFace(PLAYERS, PLAYERS', trace', a, b)
           => /\ PLAYERS'[b].dead
              /\ \A k \in MeleeKills(trace') : k.killer # b
              /\ \E k \in MeleeKills(trace') : k.victim = b /\ k.killer <= a
              /\ \A n \in DeathsOf(trace', a) : trace'.kills[n].killer < a
              /\ (\A k \in MeleeKills(trace') : k.killer = a)
                 => /\ ~PLAYERS'[a].dead
                    /\ PLAYERS'[a].kills > PLAYERS[a].kills
                    /\ PLAYERS'[b].kills = PLAYERS[b].kills

\* C34: a player killed earlier in a tick's combat resolution scores no
\* melee kill and deflects no bullet later in that tick; of two players who
\* have each other in their active melee hitboxes, the higher-indexed one
\* dies without scoring and is never the one who kills the lower-indexed
\* one; with no third attacker, exactly the higher-indexed one dies and only
\* the lower-indexed one scores.
C34_SameTickTieBreak == [][C34_TieBreakStep]_vars

\* two players swung at each other in the same tick: the higher-indexed one
\* is dead, the lower-indexed one alive with the point
C34_Witness ==
    /\ trace.gameplay /\ ~trace.reset
    /\ \E a \in PlayerIds, b \in PlayerIds :
         /\ a < b
         /\ PLAYERS[a].melee_timer > 0 /\ PLAYERS[b].melee_timer > 0
         /\ InMeleeBox(PLAYERS, a, b) /\ InMeleeBox(PLAYERS, b, a)
         /\ ~PLAYERS[a].dead /\ PLAYERS[b].dead
         /\ \E k \in MeleeKills(trace) :
              /\ k.killer = a /\ k.victim = b
              /\ k.kills_after[a] = k.kills_before[a] + 1
              /\ PLAYERS[b].kills = k.kills_before[b]

-----------------------------------------------------------------------------
(* C35: where a respawn puts the player, against the arena of that tick *)

\* a kill at a lethal wall of a player on its first update after respawning
FirstUpdateWallKills(tr) ==
    { k \in Recs(tr.kills) :
        /\ k.source = "wall" /\ ~k.was_dead
        /\ k.invuln_before = SPAWN_INVULN_FRAMES - 1 }

-----------------------------------------------------------------------------
(* C36: the layout and the spawn row of an out-of-range stage index *)

\* the stages whose layout the platform table holds
LayoutStages(plats) ==
    { st \in 0 .. (NUM_STAGES - 1) :
        ActivePlatforms(plats)
            = ActivePlatforms(setup_current_stage(NoPlatforms, st)) }

\* the spawn points of a stage's row
RowPoints(st) ==
    { <<SpawnPoint(st, 2 * k), SpawnPoint(st, 2 * k + 1)>> : k \in PlayerIds }

\* the stages in whose row every player stands at the point of its slot
SpawnRowStages(P) ==
    { st \in 0 .. (NUM_STAGES - 1) :
        \A i \in PlayerIds :
            <<P[i].x, P[i].y>>
                = <<SpawnPoint(st, 2 * i), SpawnPoint(st, 2 * i + 1)>> }

\* the stages from whose row every player's respawn would be taken
RespawnRowStages(P, B, current_stage) ==
    { st \in 0 .. (NUM_STAGES - 1) :
        \A i \in PlayerIds :
            choose_safe_respawn_position(P, B, current_stage, i)
                \in RowPoints(st) }

-----------------------------------------------------------------------------
(* C37: the score against the kill target *)

KillTarget == Max(CONFIG.kills_to_win, 1)

\* the kills of a tick that were resolved after the match had been won
KillsPastTheWin(tr) ==
    { k \in Recs(tr.kills) :
        /\ ~k.was_dead /\ k.killer # k.victim
        /\ k.phase_before = "FinalKo" }

\* C37 as stated: in every state of a match no player's kills exceeds
\* max(kills_to_win, 1), and no kill is scored after the winning kill.
C37_ScoreWithinTarget ==
    /\ GAME_STATE.phase \in {"Playing", "FinalKo", "MatchEnd"}
          => \A i \in PlayerIds : PLAYERS[i].kills <= KillTarget
    /\ \A k \in KillsPastTheWin(trace) : k.kills_after = k.kills_before

C37_ScoreStep ==
    /\ GAME_STATE.phase = "Playing"
          => \A i \in PlayerIds : PLAYERS[i].kills < KillTarget
    /\ GAME_STATE'.phase \in {"Playing", "FinalKo", "MatchEnd"}
          => \A i \in PlayerIds :
                PLAYERS'[i].kills <= KillTarget + (MAX_PLAYERS - 2)
    /\ \A k \in Recs(trace'.kills) :
          (~k.was_dead /\ k.killer # k.victim)
            => k.kills_after
                 = [k.kills_before EXCEPT ![k.killer] = @ + 1]
    /\ ( /\ GAME_STATE.phase \in {"FinalKo", "MatchEnd"}
         /\ GAME_STATE'.phase \in {"FinalKo", "MatchEnd"} )
       => /\ trace'.kills = <<>>
          /\ \A i \in PlayerIds : PLAYERS'[i].kills = PLAYERS[i].kills

\* C37: while a round is played every player's kills is below
\* max(kills_to_win, 1); every kill of a living victim by another player
\* adds one to the killer's kills, also a kill resolved in the winning tick
\* after the winning kill (a further victim of the same swing, a later
\* bullet, a melee hit after the bullets), so that a score can pass the
\* target, by at most MAX_PLAYERS - 2; during the FinalKo hold and in
\* MatchEnd no kill is resolved and no score changes.
C37_ScoreAgainstTarget == [][C37_ScoreStep]_vars

\* the match is won and the winner's score is past the target: its swing
\* killed a second player after the winning kill
C37_Witness ==
    /\ GAME_STATE.phase = "FinalKo"
    /\ \E k \in KillsPastTheWin(trace) :
         /\ k.source = "melee"
         /\ k.kills_before[k.killer] >= KillTarget
         /\ PLAYERS[k.killer].kills > KillTarget
         /\ GAME_STATE.winner_idx = k.killer
-----------------------------------------------------------------------------
(* C38: bullets against a player in a swing *)

\* the living players whose swing is live
Swinging(P) ==
    {i \in PlayerIds : P[i].active /\ ~P[i].dead /\ P[i].melee_timer > 0}

\* the points of a player's bounding box on a grid of a tenth of a unit
BoxPoints(player) ==
    { [x |-> player.x + 100 * m, y |-> player.y + 100 * n] :
        m \in 0 .. (PLAYER_WIDTH \div 100),
        n \in 0 .. (PLAYER_HEIGHT \div 100) }

\* the bullets that update_bullets brought to the player test with their
\* point in the bounding box of player i
ShotsInBox(P, tr, i) ==
    { r.shot : r \in { d \in Recs(tr.deflects) : d.by = i }
                       \cup { h \in Recs(tr.hits) : h.victim = i } }
      \cap { b \in UNION {{d.shot : d \in Recs(tr.deflects)},
                           {h.shot : h \in Recs(tr.hits)}} :
               point_in_aabb(b.x, b.y, P[i].x, P[i].y,
                             PLAYER_WIDTH, PLAYER_HEIGHT) }

C38_ShieldStep ==
    \A i \in Swinging(PLAYERS) :
        /\ \A p \in BoxPoints(PLAYERS[i]) :
              /\ point_in_aabb(p.x, p.y, PLAYERS[i].x, PLAYERS[i].y,
                               PLAYER_WIDTH, PLAYER_HEIGHT)
              /\ \A facing_right \in BOOLEAN :
                    InDeflectRange(p, [PLAYERS[i] EXCEPT
                                          !.facing_right = facing_right])
        /\ \A h \in Recs(trace'.hits) : h.victim # i
        /\ \A k \in Recs(trace'.kills) : k.victim # i
        /\ ~PLAYERS'[i].dead
        /\ \A d \in Recs(trace'.deflects) :
              d.by = i => /\ d.shot.owner # i
                          /\ d.after.owner = i
                          /\ InDeflectRange(d.shot, PLAYERS[i])

\* C38: a living player whose melee_timer is above 0 when update_bullets
\* runs is not hit and not killed by any bullet in that call, whichever way
\* it faces: every point of its bounding box is within MELEE_RANGE of the
\* centre of its melee hitbox for both facing directions, and the
\* deflection test comes before the hit test, so a bullet of another owner
\* that reaches it inside the box is deflected and becomes its own.
C38_MeleeShield == [][C38_ShieldStep]_vars

\* a bullet on the edge of the box that is farthest from the hitbox centre
\* of a player swinging the other way, deflected, the player alive
C38_Witness ==
    \E d \in Recs(trace.deflects) :
        /\ d.by \in Swinging(PLAYERS)
        /\ d.shot \in ShotsInBox(PLAYERS, trace, d.by)
        /\ d.shot.y = PLAYERS[d.by].y + PLAYER_HEIGHT
        /\ IF PLAYERS[d.by].facing_right
           THEN d.shot.x = PLAYERS[d.by].x
           ELSE d.shot.x = PLAYERS[d.by].x + PLAYER_WIDTH
        /\ BULLETS[d.bullet].active /\ BULLETS[d.bullet].owner = d.by
-----------------------------------------------------------------------------
(* C39: what holds of every active bullet slot *)

\* the last deflection of bullet b in a tick's records, if any
LastDeflection(tr, b) ==
    { n \in Idx(tr.deflects) :
        /\ tr.deflects[n].bullet = b
        /\ \A m \in Idx(tr.deflects) :
              tr.deflects[m].bullet = b => m <= n }

C39_SlotStep ==
    /\ \A b \in BulletIds :
          BULLETS'[b].active
            => /\ BULLETS'[b].lifetime \in 1 .. BULLET_LIFETIME
               /\ BULLETS'[b].owner \in PlayerIds
               /\ PLAYERS'[BULLETS'[b].owner].active
    /\ \A b \in BulletIds :
          ( /\ BULLETS[b].active /\ BULLETS'[b].active
            /\ BULLETS'[b].owner # BULLETS[b].owner )
            => \E n \in LastDeflection(trace', b) :
                 /\ trace'.deflects[n].by = BULLETS'[b].owner
                 /\ BULLETS'[b].lifetime = BULLET_LIFETIME
    /\ \A sp \in Recs(trace'.spawns) :
          (BULLETS'[sp.slot].active /\ LastDeflection(trace', sp.slot) = {})
            => BULLETS'[sp.slot].owner = sp.owner
    /\ \A h \in Recs(trace'.hits) :
          /\ h.victim # h.shot.owner
          /\ h.killer = h.shot.owner
          /\ h.shot.lifetime \in 1 .. BULLET_LIFETIME
    /\ \A k \in Recs(trace'.kills) :
          k.source = "bullet"
            => /\ ~k.was_dead /\ k.killer # k.victim
               /\ k.kills_after = [k.kills_before EXCEPT ![k.killer] = @ + 1]

\* C39: every active bullet has 1 <= lifetime <= BULLET_LIFETIME and an
\* owner in 0..3 whose player slot is active; a slot that stays active
\* changes its owner only by a deflection, to the deflector, and a bullet
\* spawned in the tick belongs to the player that fired it unless it was
\* deflected; the victim of a bullet hit is never the bullet's owner at the
\* test, and every bullet kill is of a living player and adds exactly one
\* to the kills of that owner.
C39_BulletSlots == [][C39_SlotStep]_vars

\* a bullet deflected in an earlier tick has killed for its new owner, and
\* another bullet is in flight
C39_Witness ==
    \E h \in Recs(trace.hits) :
        /\ bhist[h.bullet].deflected
        /\ LastDeflection(trace, h.bullet) = {}
        /\ ~PLAYERS[h.killer].dead /\ PLAYERS[h.killer].kills > 0
        /\ PLAYERS[h.victim].dead
        /\ \E b \in BulletIds : BULLETS[b].active
-----------------------------------------------------------------------------
(* C40: the bullets of a dead player *)

\* the active bullets whose owner is dead
Orphans(P, B) ==
    {b \in BulletIds : B[b].active /\ P[B[b].owner].dead}

\* the kills of living victims by the bullets of dead owners
PosthumousKills(tr) ==
    { k \in Recs(tr.kills) :
        k.source = "bullet" /\ ~k.was_dead /\ k.killer_dead }

C40_OrphanStep ==
    /\ \A k \in Recs(trace'.kills) :
          \A b \in BulletIds :
              ( /\ BULLETS[b].active /\ BULLETS[b].owner = k.victim
                /\ ~k.was_dead /\ BULLETS'[b].active )
                => \/ BULLETS'[b].owner = k.victim
                   \/ LastDeflection(trace', b) # {}
    /\ \A b \in Orphans(PLAYERS, BULLETS) :
          \/ /\ BULLETS'[b]
                  = [MoveBullet(BULLETS[b]) EXCEPT !.active = BULLETS'[b].active]
             /\ ~BULLETS'[b].active
                  => \/ BULLETS'[b].lifetime = 0
                     \/ BULLETS'[b].x < -12000 \/ BULLETS'[b].x > 12000
                     \/ BULLETS'[b].y < -10000 \/ BULLETS'[b].y > 10000
                     \/ HitsPlatform(PLATFORMS, BULLETS'[b].x, BULLETS'[b].y)
                     \/ \E h \in Recs(trace'.hits) : h.bullet = b
          \/ LastDeflection(trace', b) # {}
          \/ trace'.reset
          \/ ~trace'.gameplay
    /\ \A k \in PosthumousKills(trace') :
          /\ k.killer # k.victim
          /\ k.kills_after = [k.kills_before EXCEPT ![k.killer] = @ + 1]
          /\ k.kills_after[k.killer] >= KillTarget
                => k.phase_after = "FinalKo" /\ k.winner_after = k.killer

\* C40: the death of its owner leaves a bullet as it is: it stays active
\* with the same owner and goes on moving until its lifetime, the screen
\* bounds, a platform, a hit or a round reset ends it, or a deflection
\* takes it over; a kill it resolves while its owner is dead adds one to
\* the dead owner's kills and, when that reaches the kill target, sets the
\* phase to FinalKo with the dead owner as the winner.
C40_BulletsOutliveOwner == [][C40_OrphanStep]_vars

\* a dead player has won the match by a bullet it fired while alive
C40_Witness ==
    /\ GAME_STATE.phase = "FinalKo"
    /\ PLAYERS[GAME_STATE.winner_idx].dead
    /\ PLAYERS[GAME_STATE.winner_idx].kills >= KillTarget
    /\ \E k \in PosthumousKills(trace) :
         /\ k.killer = GAME_STATE.winner_idx
         /\ k.phase_before = "Playing"
====
